---- MODULE Spec2Model ----
(***************************************************************************)
(* Model of the EVE-MI mining bot: the cycle controller (MiningBot,        *)
(* src/bot_logic.py), the loop thread that ticks it (BotThread,            *)
(* src/main.py) and the operator surface (MainWindow, src/main.py).        *)
(*                                                                         *)
(* The loop thread advances one blocking perception call at a time, so     *)
(* that the operator's commands, which run on the GUI thread, interleave   *)
(* with a tick in flight.  Perception results are the environment's        *)
(* choice.  Quantities are kept in tenths (12.0 km is 120, 99.0 % of a     *)
(* hold of 100.0 m3 is 990 of 1000), and the comparisons the code makes    *)
(* on floats are made on the exact ratios.                                 *)
(***************************************************************************)
EXTENDS Integers, Sequences, FiniteSets, TLC

\* ---------------------------------------------------------------- bounds
\* Rows of one overview scan.
MaxRows == 2
\* Single-shot timers of stop_bot pending at once.
MaxTimers == 1
\* Clicks of the operator (Start, Stop, Dock Now) in one run.
MaxOps == 3
\* Line entries pooled from the four variants in one scan_overview call.
MaxPool == 4
\* Text boxes reported in one find_text_in_region call.
MaxBoxes == 3
MaxWaits == 2

\* ------------------------------------------------------ program constants
ScanFailLimit == 2
max_retries == 3
LostLimit == 5
DockPolls == 40
required_confirmations == 2
UndockPolls == 30
\* 15.0 km, in tenths
InRangeKm10 == 150
\* _parse_distance: 9999.0 (no distance parsed) and 999999.0 ('au'), in tenths
UnknownDist == 99990
FarDist == 9999990

\* ------------------------------------------------------------ value sets
BotState == {"IDLE", "CHECK_CARGO", "SCANNING", "APPROACHING", "LOCKING",
             "MINING", "DOCKING", "UNLOADING", "UNDOCKING", "TRAVELING"}

NoName == "none"

\* One overview entry, as scan_overview builds it.  belt is
\* "asteroid belt" in text.lower(), which _handle_traveling filters on.
Row(n, a, p, b, d) ==
    [name |-> n, is_asteroid |-> a, is_player |-> p, belt |-> b, distance |-> d]

Rows == { Row("Veldspar", TRUE, FALSE, FALSE, 90),
          Row("Veldspar", TRUE, FALSE, FALSE, 120),
          Row("Veldspar", TRUE, FALSE, FALSE, 140),
          Row("Veldspar", TRUE, FALSE, FALSE, InRangeKm10),
          Row("Asteroid", TRUE, FALSE, FALSE, UnknownDist),
          Row(NoName, FALSE, TRUE, FALSE, UnknownDist),
          Row(NoName, FALSE, FALSE, TRUE, FarDist) }

RECURSIVE SeqsUpTo(_, _)
SeqsUpTo(S, n) ==
    IF n = 0 THEN { <<>> }
    ELSE LET shorter == SeqsUpTo(S, n - 1)
         IN  shorter \cup { Append(s, x) : s \in { t \in shorter : Len(t) = n - 1 }, x \in S }

\* What scan_overview can return: a list of entries, top to bottom.
Scans == SeqsUpTo(Rows, MaxRows)

\* What read_inventory_tooltip can return: (0, 0, 0), or a reading whose
\* percent is at most 105.
Reading(c, m) == [current |-> c, max |-> m]
Readings == { Reading(0, 0), Reading(50, 1000), Reading(989, 1000),
              Reading(990, 1000), Reading(1030, 1000), Reading(1485, 1500),
              Reading(990, 2500), Reading(2475, 2500) }

NoMax == 0

VARIABLES
    \* MiningBot
    state, running, current_target, current_target_name, lost_target_counter,
    last_cargo_check, known_max_cargo, approach_command_sent, scan_fail_count,
    cargo_configured,
    \* BotThread
    should_run, thr_running, pc, attempt, poll, confirmations, belts_left,
    \* MainWindow
    start_btn, stop_btn, dock_btn, timers, ops,
    \* observation of the run: the tick in flight or last finished, the
    \* calls it made, and what the operator asked for
    tick, cnt, mon,
    \* VisionSystem: the perception call under study, its input and result
    vis

botVars == <<state, running, current_target, current_target_name,
             lost_target_counter, last_cargo_check, known_max_cargo,
             approach_command_sent, scan_fail_count, cargo_configured>>
thrVars == <<should_run, thr_running, pc, attempt, poll, confirmations, belts_left>>
guiVars == <<start_btn, stop_btn, dock_btn, timers, ops>>
obsVars == <<tick, cnt, mon>>
vars == <<botVars, thrVars, guiVars, obsVars, vis>>

\* ------------------------------------------------------------ observation
ZeroCnt ==
    [scan |-> 0, lock |-> 0, verify |-> 0, toggle |-> 0, approach |-> 0,
     stop_ship |-> 0, scanner |-> 0, miners |-> 0, polls |-> 0,
     drag |-> 0, click |-> 0, rclick |-> 0, warp |-> 0]

NoCheck ==
    [performed |-> FALSE, current |-> 0, max |-> 0, discarded |-> FALSE,
     raw |-> 0, known |-> 0]

\* The record of a tick: the state update() dispatched on, the state the
\* handler left, and what happened in between.
NewTick(h) ==
    [from |-> h, done |-> FALSE, to |-> h, forced |-> FALSE, fail |-> FALSE,
     empty |-> FALSE, io |-> FALSE, chk |-> NoCheck, missing |-> {},
     ver |-> [read |-> FALSE, current |-> 0, max |-> 0], gone |-> FALSE,
     belts |-> 0, nearest |-> -1, locked |-> FALSE]

Bump(c, f) == [c EXCEPT ![f] = @ + 1]

\* current_target: None, or the entry SCANNING picked; the controller
\* reads only whether it is set.
NoTarget == "None"

Asteroids(results) == SelectSeq(results, LAMBDA r : r.is_asteroid)

\* The least distance among the entries of a list; -1 for an empty list.
Nearest(entries) ==
    IF entries = << >> THEN -1
    ELSE CHOOSE d \in { entries[i].distance : i \in DOMAIN entries } :
             \A i \in DOMAIN entries : d <= entries[i].distance

\* ------------------------------------------------------------------ Init
InitialSct_eager == "gui"

\* VisionSystem.__init__, run by the GUI thread: 'self.sct = None'.
\* mon.sct is the thread that created the screen-capture handle.
InitialSct == "none"

\* capture_screen: 'if self.sct is None: self.sct = mss.mss()', in the
\* thread that makes the call.
capture_screen(sct, thread) == IF sct = "none" THEN thread ELSE sct

Constructed ==
    /\ state = "IDLE"
    /\ running = FALSE
    /\ current_target = NoTarget
    /\ current_target_name = NoName
    /\ lost_target_counter = 0
    /\ last_cargo_check = "never"
    /\ known_max_cargo = NoMax
    /\ approach_command_sent = FALSE
    /\ scan_fail_count = 0
    /\ cargo_configured \in BOOLEAN
    /\ should_run = FALSE
    /\ thr_running = FALSE
    /\ pc = "loop"
    /\ attempt = 0
    /\ poll = 0
    /\ confirmations = 0
    /\ belts_left = 0
    /\ start_btn = TRUE
    /\ stop_btn = FALSE
    /\ dock_btn = FALSE
    /\ timers = 0
    /\ tick = [NewTick("IDLE") EXCEPT !.done = TRUE]
    /\ cnt = ZeroCnt
    /\ mon = [empty_streak |-> 0, lost_streak |-> 0, dock_streak |-> 0,
              e2e |-> 0, restarted |-> FALSE, started |-> FALSE,
              after_travel |-> FALSE, probe |-> "none",
              approaches |-> 0, waits |-> 0, sct |-> InitialSct]
    /\ ops = 0

\* No perception call is under study while the controller runs.
Init == Constructed /\ vis = [fn |-> "none"]

\* ------------------------------------------------- MainWindow (GUI thread)
\* One more click of the operator, within the bound.
Operator ==
    /\ ops < MaxOps
    /\ ops' = ops + 1

\* A stop has been asked for and the controller has not been stopped since.
StopPending == ~should_run /\ thr_running /\ running

\* start_bot: start_signal reaches _start_bot in the same thread.
StartCmd ==
    /\ start_btn
    /\ Operator
    /\ should_run' = TRUE
    /\ start_btn' = FALSE
    /\ stop_btn' = TRUE
    /\ dock_btn' = TRUE
    /\ mon' = [mon EXCEPT !.restarted = StopPending]
    /\ UNCHANGED <<botVars, thr_running, pc, attempt, poll, confirmations,
                   belts_left, timers, tick, cnt>>
    /\ UNCHANGED vis

\* stop_bot: should_run is cleared and a single-shot timer is armed.
StopCmd ==
    /\ stop_btn
    /\ timers < MaxTimers
    /\ Operator
    /\ should_run' = FALSE
    /\ timers' = timers + 1
    /\ mon' = [mon EXCEPT !.restarted = FALSE]
    /\ UNCHANGED <<botVars, thr_running, pc, attempt, poll, confirmations,
                   belts_left, start_btn, stop_btn, dock_btn, tick, cnt>>
    /\ UNCHANGED vis

\* _enable_start_btn, 500 ms after stop_bot.
TimerFire ==
    /\ timers > 0
    /\ timers' = timers - 1
    /\ start_btn' = TRUE
    /\ stop_btn' = FALSE
    /\ dock_btn' = FALSE
    /\ UNCHANGED <<botVars, thrVars, obsVars, ops>>
    /\ UNCHANGED vis

\* dock_now: writes bot.state from the GUI thread, whatever the loop
\* thread is doing.
DockNow ==
    /\ dock_btn
    /\ thr_running
    /\ Operator
    /\ state' = "DOCKING"
    /\ tick' = [tick EXCEPT !.forced = IF tick.done THEN @ ELSE TRUE]
    /\ mon' = [mon EXCEPT !.e2e = 0]
    /\ UNCHANGED <<running, current_target, current_target_name,
                   lost_target_counter, last_cargo_check, known_max_cargo,
                   approach_command_sent, scan_fail_count, cargo_configured,
                   thrVars, start_btn, stop_btn, dock_btn, timers, cnt>>
    /\ UNCHANGED vis

\* ------------------------------------------------ MiningBot.start / stop
\* stop(): the two assignments.
BotStop_keepsRunning ==
    /\ running' = running
    /\ state' = "IDLE"

BotStop ==
    /\ running' = FALSE
    /\ state' = "IDLE"

\* ------------------------------------------------- BotThread.run (loop)
\* should_run and not self.running: bot.start() sets running and probes
\* for 'Undock'.
LoopStart ==
    /\ pc = "loop"
    /\ should_run
    /\ ~thr_running
    /\ running' = TRUE
    /\ pc' = "start"
    /\ mon' = [mon EXCEPT !.e2e = 0]
    /\ UNCHANGED <<state, current_target, current_target_name,
                   lost_target_counter, last_cargo_check, known_max_cargo,
                   approach_command_sent, scan_fail_count, cargo_configured,
                   should_run, thr_running, attempt, poll, confirmations,
                   belts_left, guiVars, tick, cnt>>
    /\ UNCHANGED vis

StartState_swapped(check) == IF check THEN "CHECK_CARGO" ELSE "UNDOCKING"
StartState(check) == IF check THEN "UNDOCKING" ELSE "CHECK_CARGO"

StartProbe ==
    /\ pc = "start"
    /\ \E check \in BOOLEAN :
        /\ state' = StartState(check)
        /\ mon' = [mon EXCEPT !.started = TRUE,
                              !.probe = IF check THEN "found" ELSE "absent",
                              !.sct = capture_screen(@, "loop")]
    /\ thr_running' = TRUE
    /\ pc' = "update"
    /\ UNCHANGED <<running, current_target, current_target_name,
                   lost_target_counter, last_cargo_check, known_max_cargo,
                   approach_command_sent, scan_fail_count, cargo_configured,
                   should_run, attempt, poll, confirmations, belts_left,
                   guiVars, tick, cnt>>
    /\ UNCHANGED vis

\* should_run and self.running: straight to bot.update().
LoopCheck ==
    /\ pc = "loop"
    /\ should_run
    /\ thr_running
    /\ pc' = "update"
    /\ UNCHANGED <<botVars, should_run, thr_running, attempt, poll,
                   confirmations, belts_left, guiVars, obsVars>>
    /\ UNCHANGED vis

\* not should_run and self.running: bot.stop().
LoopStop ==
    /\ pc = "loop"
    /\ ~should_run
    /\ thr_running
    /\ BotStop
    /\ thr_running' = FALSE
    /\ mon' = [mon EXCEPT !.e2e = 0, !.restarted = FALSE]
    /\ UNCHANGED <<current_target, current_target_name, lost_target_counter,
                   last_cargo_check, known_max_cargo, approach_command_sent,
                   scan_fail_count, cargo_configured, should_run, pc, attempt,
                   poll, confirmations, belts_left, guiVars, tick, cnt>>
    /\ UNCHANGED vis

\* --------------------------------------------------- MiningBot.update
UpdateGuard_always == TRUE

\* update(): 'if not self.running: return'.
UpdateGuard == running

Entry(s) ==
    CASE s = "CHECK_CARGO" -> "check_cargo"
      [] s = "SCANNING"    -> "scanning"
      [] s = "APPROACHING" -> "approaching"
      [] s = "LOCKING"     -> "lock_scan"
      [] s = "MINING"      -> "mining"
      [] s = "DOCKING"     -> "dock_dropoff"
      [] s = "UNLOADING"   -> "unl_tabs"
      [] s = "UNDOCKING"   -> "und_find"
      [] s = "TRAVELING"   -> "trv_scan"
      [] OTHER             -> "loop"

\* The if/elif chain on self.state; IDLE matches no branch.
Dispatch ==
    /\ pc = "update"
    /\ LET handled == UpdateGuard /\ state # "IDLE"
           t == NewTick(state)
       IN  /\ pc' = IF handled THEN Entry(state) ELSE "loop"
           /\ tick' = IF handled THEN t ELSE [t EXCEPT !.done = TRUE]
           /\ mon' = [mon EXCEPT
                        !.empty_streak = IF handled /\ state = "SCANNING" THEN @ ELSE 0,
                        !.lost_streak = IF handled /\ state = "MINING" THEN @ ELSE 0,
                        !.dock_streak = 0,
                        !.started = FALSE,
                        !.probe = "none",
                        !.after_travel = /\ tick.done /\ ~tick.fail
                                         /\ tick.from = "TRAVELING"
                                         /\ ~mon.started,
                        !.e2e = IF handled /\ state \in {"SCANNING", "APPROACHING"}
                                THEN @ ELSE 0]
    /\ cnt' = ZeroCnt
    /\ attempt' = 0
    /\ poll' = 0
    /\ confirmations' = 0
    /\ belts_left' = 0
    /\ UNCHANGED <<botVars, should_run, thr_running, guiVars>>
    /\ UNCHANGED vis

\* The handler returns to the loop, leaving state st behind.
Return(t, st) ==
    /\ pc' = "loop"
    /\ tick' = [t EXCEPT !.done = TRUE, !.to = st]

\* ------------------------------------------------------ _check_cargo
\* 'ratio > 2.0 or ratio < 0.5' replaces the max read by the known one.
ValidatedMax(known, m) ==
    IF known = NoMax THEN m
    ELSE IF m > 2 * known \/ 2 * m < known THEN known ELSE m

AnomalousCurrent_never(c, m) == FALSE

\* 'curr > max_val * 1.02'
AnomalousCurrent(c, m) == c * 100 > m * 102

CargoFull_gt(c, m) == c * 100 > 99 * m

\* 'pct >= 99.0', pct being (curr / max_val) * 100.0
CargoFull(c, m) == c * 100 >= 99 * m

KnownAfter_latest(known, r) == IF r.max > 0 THEN r.max ELSE known

\* known_max_cargo after a reading: the first max read is kept.
KnownAfter(known, r) == IF r.max > 0 /\ known = NoMax THEN r.max ELSE known

\* "unread" | "discard" | "full" | "ok"
CargoOutcome(known, r) ==
    LET m == ValidatedMax(known, r.max)
    IN  IF r.max <= 0 THEN "unread"
        ELSE IF AnomalousCurrent(r.current, m) THEN "discard"
        ELSE IF CargoFull(r.current, m) THEN "full"
        ELSE "ok"

\* The state _check_cargo leaves, st being the state it found.
CargoState(known, r, st) ==
    IF CargoOutcome(known, r) = "full" THEN "DOCKING" ELSE st

CheckRecord(known, r) ==
    [performed |-> TRUE, current |-> r.current,
     max |-> ValidatedMax(known, r.max),
     discarded |-> CargoOutcome(known, r) \in {"unread", "discard"},
     raw |-> r.max, known |-> known]

\* 'if self.inventory_hover_point[0] == 0 or self.tooltip_region[2] == 0:
\* return', the first statement of _check_cargo.
CheckSkipped_never == FALSE
CheckSkipped == ~cargo_configured

\* ------------------------------------------------ _handle_check_cargo
AfterCheckCargo(st) == IF st = "CHECK_CARGO" THEN "SCANNING" ELSE st

HandleCheckCargo ==
    /\ pc = "check_cargo"
    /\ IF CheckSkipped
       THEN /\ state' = AfterCheckCargo(state)
            /\ Return(tick, state')
            /\ UNCHANGED known_max_cargo
       ELSE \E r \in Readings :
            /\ known_max_cargo' = KnownAfter(known_max_cargo, r)
            /\ state' = AfterCheckCargo(CargoState(known_max_cargo, r, state))
            /\ Return([tick EXCEPT !.io = TRUE,
                                   !.chk = CheckRecord(known_max_cargo, r)], state')
    /\ UNCHANGED <<running, current_target, current_target_name,
                   lost_target_counter, last_cargo_check,
                   approach_command_sent, scan_fail_count, cargo_configured,
                   should_run, thr_running, attempt, poll, confirmations,
                   belts_left, guiVars, cnt, mon>>
    /\ UNCHANGED vis

\* --------------------------------------------------- _handle_scanning
\* The end-to-end scenario's first step: one row, Veldspar at 12.0 km.
E2EAfterScan(results) ==
    IF ~tick.forced /\ results = << Row("Veldspar", TRUE, FALSE, FALSE, 120) >>
    THEN 1 ELSE 0

HandleScanning ==
    /\ pc = "scanning"
    /\ \E results \in Scans :
        LET asteroids == Asteroids(results)
        IN  IF asteroids # << >>
            THEN /\ current_target' = "entry"
                 /\ current_target_name' = asteroids[1].name
                 /\ state' = "APPROACHING"
                 /\ approach_command_sent' = FALSE
                 /\ scan_fail_count' = 0
                 /\ mon' = [mon EXCEPT !.empty_streak = 0,
                                       !.approaches = 0,
                                       !.e2e = E2EAfterScan(results)]
                 /\ Return([tick EXCEPT !.io = TRUE], state')
            ELSE /\ IF scan_fail_count + 1 >= ScanFailLimit
                    THEN /\ state' = "TRAVELING"
                         /\ scan_fail_count' = 0
                    ELSE /\ state' = state
                         /\ scan_fail_count' = scan_fail_count + 1
                 /\ mon' = [mon EXCEPT !.empty_streak = @ + 1, !.e2e = 0]
                 /\ Return([tick EXCEPT !.io = TRUE, !.empty = TRUE], state')
                 /\ UNCHANGED <<current_target, current_target_name,
                                approach_command_sent>>
    /\ cnt' = Bump(cnt, "scan")
    /\ UNCHANGED <<running, lost_target_counter, last_cargo_check,
                   known_max_cargo, cargo_configured, should_run, thr_running,
                   attempt, poll, confirmations, belts_left, guiVars>>
    /\ UNCHANGED vis

\* ------------------------------------------------- _handle_approaching
InRange_inverted(dist) == dist > InRangeKm10

\* 'dist < 15.0'
InRange(dist) == dist < InRangeKm10

\* The scenario's later steps. After the scan at 12.0: one row at 14.0
\* (stage 2), or one row at 15.0 (stage 3) and then one at 9.0 (stage 4).
E2EAfterApproach(results) ==
    IF tick.forced THEN 0
    ELSE IF mon.e2e = 1 /\ results = << Row("Veldspar", TRUE, FALSE, FALSE, 140) >> THEN 2
    ELSE IF mon.e2e = 1 /\ results = << Row("Veldspar", TRUE, FALSE, FALSE, 150) >> THEN 3
    ELSE IF mon.e2e = 3 /\ results = << Row("Veldspar", TRUE, FALSE, FALSE, 90) >> THEN 4
    ELSE 0

AlreadySent_never(sent) == FALSE

\* 'if not self.approach_command_sent:' guards approach_target.
AlreadySent(sent) == sent

HandleApproaching ==
    /\ pc = "approaching"
    /\ IF current_target = NoTarget
       THEN /\ state' = "SCANNING"
            /\ Return(tick, state')
            /\ UNCHANGED <<approach_command_sent, cnt, mon>>
       ELSE \E results \in Scans :
            LET asteroids == Asteroids(results)
                t == [tick EXCEPT !.io = TRUE, !.empty = (asteroids = << >>),
                                  !.nearest = Nearest(asteroids)]
                issue == /\ asteroids # << >>
                         /\ ~InRange(asteroids[1].distance)
                         /\ ~AlreadySent(approach_command_sent)
            IN  /\ mon' = [mon EXCEPT !.e2e = E2EAfterApproach(results),
                                      !.approaches = IF issue /\ @ < 2
                                                     THEN @ + 1 ELSE @]
                /\ IF asteroids = << >>
                   THEN /\ state' = "SCANNING"
                        /\ cnt' = Bump(cnt, "scan")
                        /\ UNCHANGED approach_command_sent
                   ELSE IF InRange(asteroids[1].distance)
                   THEN /\ state' = "LOCKING"
                        /\ cnt' = Bump(Bump(cnt, "scan"), "stop_ship")
                        /\ UNCHANGED approach_command_sent
                   ELSE /\ state' = state
                        /\ approach_command_sent' = TRUE
                        /\ cnt' = IF AlreadySent(approach_command_sent)
                                  THEN Bump(cnt, "scan")
                                  ELSE Bump(Bump(cnt, "scan"), "approach")
                /\ Return(t, state')
    /\ UNCHANGED <<running, current_target, current_target_name,
                   lost_target_counter, last_cargo_check, known_max_cargo,
                   scan_fail_count, cargo_configured, should_run, thr_running,
                   attempt, poll, confirmations, belts_left, guiVars>>
    /\ UNCHANGED vis

\* ---------------------------------------------------- _handle_locking
\* One attempt: a fresh scan, then the lock command.
LockScan ==
    /\ pc = "lock_scan"
    /\ \E results \in Scans :
        LET asteroids == Asteroids(results)
        IN  IF asteroids = << >>
            THEN /\ state' = "SCANNING"
                 /\ cnt' = Bump(cnt, "scan")
                 /\ Return([tick EXCEPT !.io = TRUE, !.empty = TRUE], state')
                 /\ UNCHANGED current_target_name
            ELSE /\ current_target_name' = asteroids[1].name
                 /\ cnt' = Bump(Bump(cnt, "scan"), "lock")
                 /\ pc' = "lock_verify1"
                 /\ tick' = [tick EXCEPT !.io = TRUE]
                 /\ UNCHANGED state
    /\ UNCHANGED <<running, current_target, lost_target_counter,
                   last_cargo_check, known_max_cargo, approach_command_sent,
                   scan_fail_count, cargo_configured, should_run, thr_running,
                   attempt, poll, confirmations, belts_left, guiVars, mon>>
    /\ UNCHANGED vis

Armed_scannerOnly(c) == Bump(c, "scanner")

\* activate_scanner(), then activate_miners().
Armed(c) == Bump(Bump(c, "scanner"), "miners")

\* Lock confirmed: the loop is left by break; scanner and lasers are armed.
LockConfirmed(c) ==
    /\ state' = "MINING"
    /\ cnt' = Armed(c)
    /\ Return([tick EXCEPT !.locked = TRUE], state')
    /\ attempt' = 0

\* has_selected_target after the lock command; a miss toggles the window.
LockVerify ==
    /\ pc = "lock_verify1"
    /\ \E locked \in BOOLEAN :
        IF locked
        THEN LockConfirmed(Bump(cnt, "verify"))
        ELSE /\ cnt' = Bump(Bump(cnt, "verify"), "toggle")
             /\ pc' = "lock_verify2"
             /\ UNCHANGED <<state, tick, attempt>>
    /\ UNCHANGED <<running, current_target, current_target_name,
                   lost_target_counter, last_cargo_check, known_max_cargo,
                   approach_command_sent, scan_fail_count, cargo_configured,
                   should_run, thr_running, poll, confirmations, belts_left,
                   guiVars, mon>>
    /\ UNCHANGED vis

GiveUp_early(a) == a + 1 >= max_retries - 1

\* 'for attempt in range(max_retries)' is exhausted by the attempt that
\* has just failed: its else clause runs.
GiveUp(a) == a + 1 >= max_retries

\* has_selected_target after the toggle; a miss ends the attempt, and the
\* for loop's else clause gives up after max_retries attempts.
LockReverify ==
    /\ pc = "lock_verify2"
    /\ \E locked \in BOOLEAN :
        IF locked
        THEN LockConfirmed(Bump(cnt, "verify"))
        ELSE /\ cnt' = Bump(cnt, "verify")
             /\ IF GiveUp(attempt)
                THEN /\ state' = "SCANNING"
                     /\ attempt' = 0
                     /\ Return(tick, state')
                ELSE /\ pc' = "lock_scan"
                     /\ attempt' = attempt + 1
                     /\ UNCHANGED <<state, tick>>
    /\ UNCHANGED <<running, current_target, current_target_name,
                   lost_target_counter, last_cargo_check, known_max_cargo,
                   approach_command_sent, scan_fail_count, cargo_configured,
                   should_run, thr_running, poll, confirmations, belts_left,
                   guiVars, mon>>
    /\ UNCHANGED vis

\* ----------------------------------------------------- _handle_mining
\* 'time.time() - self.last_cargo_check > 30': always so before the first
\* check, and otherwise as the clock has it.
CargoDue == IF last_cargo_check = "never" THEN {TRUE} ELSE BOOLEAN

HandleMining ==
    /\ pc = "mining"
    /\ \E has_target \in BOOLEAN, due \in CargoDue :
        /\ mon' = [mon EXCEPT !.lost_streak = IF has_target THEN 0 ELSE @ + 1]
        /\ IF ~has_target
           THEN /\ IF lost_target_counter + 1 >= LostLimit
                   THEN /\ state' = "CHECK_CARGO"
                        /\ lost_target_counter' = 0
                   ELSE /\ state' = state
                        /\ lost_target_counter' = lost_target_counter + 1
                /\ Return([tick EXCEPT !.io = TRUE], state')
                /\ UNCHANGED last_cargo_check
           ELSE /\ lost_target_counter' = 0
                /\ UNCHANGED state
                /\ IF due /\ ~CheckSkipped
                   THEN /\ pc' = "mining_cargo"
                        /\ tick' = [tick EXCEPT !.io = TRUE]
                        /\ UNCHANGED last_cargo_check
                   ELSE /\ last_cargo_check' = IF due THEN "set" ELSE last_cargo_check
                        /\ Return([tick EXCEPT !.io = TRUE], state)
    /\ cnt' = Bump(cnt, "verify")
    /\ UNCHANGED <<running, current_target, current_target_name,
                   known_max_cargo, approach_command_sent, scan_fail_count,
                   cargo_configured, should_run, thr_running, attempt, poll,
                   confirmations, belts_left, guiVars>>
    /\ UNCHANGED vis

\* The cargo check of a MINING tick whose target is still selected.
MiningCargo ==
    /\ pc = "mining_cargo"
    /\ \E r \in Readings :
        /\ known_max_cargo' = KnownAfter(known_max_cargo, r)
        /\ state' = CargoState(known_max_cargo, r, state)
        /\ Return([tick EXCEPT !.chk = CheckRecord(known_max_cargo, r)], state')
    /\ last_cargo_check' = "set"
    /\ UNCHANGED <<running, current_target, current_target_name,
                   lost_target_counter, approach_command_sent, scan_fail_count,
                   cargo_configured, should_run, thr_running, attempt, poll,
                   confirmations, belts_left, guiVars, cnt, mon>>
    /\ UNCHANGED vis

\* ---------------------------------------------------- _handle_docking
\* The handler gives up: self.stop(), then return.
Halt(t) ==
    /\ BotStop
    /\ Return([t EXCEPT !.fail = TRUE], state')
    /\ mon' = [mon EXCEPT !.restarted = FALSE]

DockFindDropOff ==
    /\ pc = "dock_dropoff"
    /\ \E dropoff_loc \in BOOLEAN :
        IF ~dropoff_loc
        THEN Halt([tick EXCEPT !.io = TRUE])
        ELSE /\ pc' = "dock_menu"
             /\ tick' = [tick EXCEPT !.io = TRUE]
             /\ UNCHANGED <<state, running, mon>>
    /\ UNCHANGED <<current_target, current_target_name, lost_target_counter,
                   last_cargo_check, known_max_cargo, approach_command_sent,
                   scan_fail_count, cargo_configured, should_run, thr_running,
                   attempt, poll, confirmations, belts_left, guiVars, cnt>>
    /\ UNCHANGED vis

DockFindDock ==
    /\ pc = "dock_menu"
    /\ \E dock_loc \in BOOLEAN :
        IF ~dock_loc
        THEN Halt(tick)
        ELSE /\ pc' = "dock_poll"
             /\ UNCHANGED <<state, running, tick, mon>>
    /\ UNCHANGED <<current_target, current_target_name, lost_target_counter,
                   last_cargo_check, known_max_cargo, approach_command_sent,
                   scan_fail_count, cargo_configured, should_run, thr_running,
                   attempt, poll, confirmations, belts_left, guiVars, cnt>>
    /\ UNCHANGED vis

Confirmed_sticky(c, is_docked) == IF is_docked THEN c + 1 ELSE c

\* consecutive_confirmations after a pass: one more, or 0 again.
Confirmed(c, is_docked) == IF is_docked THEN c + 1 ELSE 0

\* One pass of 'for i in range(40)': 'Undock' exact, else 'Hangars', else
\* 'Guests'; two passes in a row must see one of them.
DockTimedOut_never(p) == FALSE

\* 'for i in range(40)' is exhausted by the poll just made.
DockTimedOut(p) == p + 1 >= DockPolls

DockPoll ==
    /\ pc = "dock_poll"
    /\ \E undock \in BOOLEAN, hangars \in BOOLEAN, guests \in BOOLEAN :
        LET is_docked == undock \/ hangars \/ guests
            c == Confirmed(confirmations, is_docked)
            m == [mon EXCEPT !.dock_streak = IF is_docked THEN @ + 1 ELSE 0]
        IN  IF c >= required_confirmations
            THEN /\ state' = "UNLOADING"
                 /\ Return(tick, state')
                 /\ poll' = 0
                 /\ confirmations' = 0
                 /\ mon' = m
                 /\ UNCHANGED running
            ELSE IF DockTimedOut(poll)
            THEN /\ BotStop
                 /\ Return([tick EXCEPT !.fail = TRUE], state')
                 /\ mon' = [m EXCEPT !.restarted = FALSE]
                 /\ poll' = 0
                 /\ confirmations' = 0
            ELSE /\ poll' = poll + 1
                 /\ confirmations' = c
                 /\ mon' = m
                 /\ UNCHANGED <<state, running, pc, tick>>
    /\ cnt' = Bump(cnt, "polls")
    /\ UNCHANGED <<current_target, current_target_name, lost_target_counter,
                   last_cargo_check, known_max_cargo, approach_command_sent,
                   scan_fail_count, cargo_configured, should_run, thr_running,
                   attempt, belts_left, guiVars>>
    /\ UNCHANGED vis

\* -------------------------------------------------- _handle_unloading
UnloadHalts_strict(mining_hold, drop_target) == ~mining_hold \/ ~drop_target

\* 'if not drop_target: ... self.stop(); return'; a missing 'Mining Hold'
\* is logged and passed over.
UnloadHalts(mining_hold, drop_target) == ~drop_target

\* The locators of the two lookups that were not found.
MissingTabs(mining_hold, drop_target) ==
    (IF mining_hold THEN {} ELSE {"Mining Hold"})
        \cup (IF drop_target THEN {} ELSE {"Item Hangar"})

UnloadTabs ==
    /\ pc = "unl_tabs"
    /\ \E mining_hold \in BOOLEAN, drop_target \in BOOLEAN :
        LET t == [tick EXCEPT !.io = TRUE,
                              !.missing = MissingTabs(mining_hold, drop_target)]
        IN  IF UnloadHalts(mining_hold, drop_target)
            THEN Halt(t)
            ELSE /\ pc' = "unl_ore"
                 /\ tick' = t
                 /\ UNCHANGED <<state, running, mon>>
    /\ UNCHANGED <<current_target, current_target_name, lost_target_counter,
                   last_cargo_check, known_max_cargo, approach_command_sent,
                   scan_fail_count, cargo_configured, should_run, thr_running,
                   attempt, poll, confirmations, belts_left, guiVars, cnt>>
    /\ UNCHANGED vis

\* The ore to drag: the first ore name found; when 'Compress' is offered
\* and clicked the ore is looked up again.
FoundOre(ore, compress_opt, ore_again) ==
    IF ~ore THEN FALSE ELSE IF compress_opt THEN ore_again ELSE TRUE

\* With an ore found, drag_and_drop onto the drop target.
UnloadOre ==
    /\ pc = "unl_ore"
    /\ \E ore \in BOOLEAN, compress_opt \in BOOLEAN, ore_again \in BOOLEAN :
        IF ~FoundOre(ore, compress_opt, ore_again)
        THEN /\ Halt([tick EXCEPT !.missing = @ \cup {"ore"}])
             /\ UNCHANGED cnt
        ELSE /\ pc' = "unl_verify"
             /\ cnt' = Bump(cnt, "drag")
             /\ UNCHANGED <<state, running, tick, mon>>
    /\ UNCHANGED <<current_target, current_target_name, lost_target_counter,
                   last_cargo_check, known_max_cargo, approach_command_sent,
                   scan_fail_count, cargo_configured, should_run, thr_running,
                   attempt, poll, confirmations, belts_left, guiVars>>
    /\ UNCHANGED vis

\* 'pct < 10.0' on the percent the tooltip reading carries.
Unloaded(r) == r.current * 10 < r.max

VerifyPasses_strict(r) == r.max > 0 /\ Unloaded(r)

\* 'if max_cap > 0: if pct < 10.0: ... UNDOCKING else: self.stop()
\* else: ... UNDOCKING': an unreadable tooltip counts as success.
VerifyPasses(r) == r.max <= 0 \/ Unloaded(r)

\* After the drag: the hold is read again.
UnloadVerify ==
    /\ pc = "unl_verify"
    /\ \E r \in Readings :
        LET t == [tick EXCEPT !.ver = [read |-> TRUE, current |-> r.current,
                                       max |-> r.max]]
        IN  IF ~VerifyPasses(r)
            THEN /\ BotStop
                 /\ Return(t, state')
                 /\ mon' = [mon EXCEPT !.restarted = FALSE]
            ELSE /\ state' = "UNDOCKING"
                 /\ Return(t, state')
                 /\ UNCHANGED <<running, mon>>
    /\ UNCHANGED <<current_target, current_target_name, lost_target_counter,
                   last_cargo_check, known_max_cargo, approach_command_sent,
                   scan_fail_count, cargo_configured, should_run, thr_running,
                   attempt, poll, confirmations, belts_left, guiVars, cnt>>
    /\ UNCHANGED vis

\* -------------------------------------------------- _handle_undocking
UndockFind ==
    /\ pc = "und_find"
    /\ \E undock_btn \in BOOLEAN :
        IF ~undock_btn
        THEN /\ Halt([tick EXCEPT !.io = TRUE])
             /\ UNCHANGED cnt
        ELSE /\ pc' = "und_poll"
             /\ tick' = [tick EXCEPT !.io = TRUE]
             /\ cnt' = Bump(cnt, "click")
             /\ UNCHANGED <<state, running, mon>>
    /\ UNCHANGED <<current_target, current_target_name, lost_target_counter,
                   last_cargo_check, known_max_cargo, approach_command_sent,
                   scan_fail_count, cargo_configured, should_run, thr_running,
                   attempt, poll, confirmations, belts_left, guiVars>>
    /\ UNCHANGED vis

UndockTimedOut_late(p) == p >= UndockPolls

\* 'for i in range(30)' is exhausted by the pass just made, p passes
\* having been made before it.
UndockTimedOut(p) == p + 1 >= UndockPolls

\* One pass of 'for i in range(30)': has 'Undock' gone?
UndockPoll ==
    /\ pc = "und_poll"
    /\ \E check \in BOOLEAN :
        IF ~check
        THEN /\ state' = "TRAVELING"
             /\ Return([tick EXCEPT !.gone = TRUE], state')
             /\ poll' = 0
             /\ UNCHANGED <<running, mon>>
        ELSE IF UndockTimedOut(poll)
        THEN /\ Halt(tick)
             /\ poll' = 0
        ELSE /\ poll' = poll + 1
             /\ UNCHANGED <<state, running, pc, tick, mon>>
    /\ cnt' = Bump(cnt, "polls")
    /\ UNCHANGED <<current_target, current_target_name, lost_target_counter,
                   last_cargo_check, known_max_cargo, approach_command_sent,
                   scan_fail_count, cargo_configured, should_run, thr_running,
                   attempt, confirmations, belts_left, guiVars>>
    /\ UNCHANGED vis

\* -------------------------------------------------- _handle_traveling
BeltEntries(results) == SelectSeq(results, LAMBDA e : e.belt)

TravelScan ==
    /\ pc = "trv_scan"
    /\ \E results \in Scans :
        IF BeltEntries(results) = << >>
        THEN /\ Halt([tick EXCEPT !.io = TRUE])
             /\ UNCHANGED belts_left
        ELSE /\ belts_left' = Len(BeltEntries(results))
             /\ pc' = "trv_belt"
             /\ tick' = [tick EXCEPT !.io = TRUE,
                                     !.belts = Len(BeltEntries(results))]
             /\ UNCHANGED <<state, running, mon>>
    /\ cnt' = Bump(cnt, "scan")
    /\ UNCHANGED <<current_target, current_target_name, lost_target_counter,
                   last_cargo_check, known_max_cargo, approach_command_sent,
                   scan_fail_count, cargo_configured, should_run, thr_running,
                   attempt, poll, confirmations, guiVars>>
    /\ UNCHANGED vis

Remaining_noBreak(warp_opt, left) == left - 1

\* The belts still to try after one was tried: 'break' on a warp option.
Remaining(warp_opt, left) == IF warp_opt THEN 0 ELSE left - 1

\* One belt of 'for entry in belt_entries': right-click, look for a warp
\* option ('Warp to Within', 'Within', 'Warp to', all exact) and click it;
\* without one the menu is dismissed and the next belt tried.  After the
\* loop: 'if not warp_initiated: self.stop()'.
TravelBelt ==
    /\ pc = "trv_belt"
    /\ \E warp_opt \in BOOLEAN, dropoff_loc \in BOOLEAN :
        LET c == IF warp_opt THEN Bump(Bump(cnt, "rclick"), "warp")
                 ELSE Bump(cnt, "rclick")
            warp_initiated == c.warp > 0
        IN  /\ cnt' = c
            /\ belts_left' = Remaining(warp_opt, belts_left)
            /\ IF belts_left' > 0
               THEN UNCHANGED <<state, running, pc, tick, mon>>
               ELSE IF warp_initiated
               THEN /\ pc' = "trv_appear"
                    /\ UNCHANGED <<state, running, tick, mon>>
               ELSE Halt(tick)
    /\ UNCHANGED <<current_target, current_target_name, lost_target_counter,
                   last_cargo_check, known_max_cargo, approach_command_sent,
                   scan_fail_count, cargo_configured, should_run, thr_running,
                   attempt, poll, confirmations, guiVars>>
    /\ UNCHANGED vis

\* 'for i in range(10)': wait for 'Warping' or 'Warp' to show; seen or
\* not, the handler goes on.
TravelAppear ==
    /\ pc = "trv_appear"
    /\ pc' = "trv_wait"
    /\ UNCHANGED <<botVars, should_run, thr_running, attempt, poll,
                   confirmations, belts_left, guiVars, obsVars>>
    /\ UNCHANGED vis

TravelArrive_checkCargo == "CHECK_CARGO"

\* 'self.state = CHECK_CARGO' is overwritten at once by
\* 'self.state = SCANNING'.
TravelArrive == "SCANNING"

\* 'while True': one poll for 'Warping' / 'Warp'; the loop ends when
\* neither is seen, and the handler assigns CHECK_CARGO.  mon.waits
\* counts the polls of this wait that saw the text (followed up to
\* MaxWaits of them).
TravelWait ==
    /\ pc = "trv_wait"
    /\ \E warping \in BOOLEAN, warp \in BOOLEAN :
        IF warping \/ warp
        THEN /\ mon.waits < MaxWaits
             /\ mon' = [mon EXCEPT !.waits = @ + 1]
             /\ UNCHANGED <<state, pc>>
        ELSE /\ state' = "CHECK_CARGO"
             /\ pc' = "trv_arrive"
             /\ mon' = [mon EXCEPT !.waits = 0]
    /\ UNCHANGED <<running, current_target, current_target_name,
                   lost_target_counter, last_cargo_check, known_max_cargo,
                   approach_command_sent, scan_fail_count, cargo_configured,
                   should_run, thr_running, attempt, poll, confirmations,
                   belts_left, guiVars, tick, cnt>>
    /\ UNCHANGED vis

\* Still in the handler: the second assignment, and the return.
TravelResume ==
    /\ pc = "trv_arrive"
    /\ state' = TravelArrive
    /\ Return(tick, state')
    /\ UNCHANGED <<running, current_target, current_target_name,
                   lost_target_counter, last_cargo_check, known_max_cargo,
                   approach_command_sent, scan_fail_count, cargo_configured,
                   should_run, thr_running, attempt, poll, confirmations,
                   belts_left, guiVars, cnt, mon>>
    /\ UNCHANGED vis

\* --------------------------------------------------------- exceptions
\* The loop thread is inside a perception call: capture_screen and the
\* pytesseract calls are made outside any try block.
InPerception ==
    \/ pc \in {"start", "scanning", "lock_scan", "lock_verify1", "lock_verify2",
               "mining", "mining_cargo", "dock_dropoff", "dock_menu",
               "dock_poll", "unl_tabs", "unl_ore", "unl_verify", "und_find",
               "und_poll", "trv_scan", "trv_belt", "trv_appear", "trv_wait"}
    \/ pc = "check_cargo" /\ ~CheckSkipped
    \/ pc = "approaching" /\ current_target # NoTarget

\* The call raises: the exception leaves the handler, update() and run(),
\* and the loop thread ends.
PerceptionRaises ==
    /\ InPerception
    /\ pc' = "crashed"
    /\ tick' = IF pc = "start" THEN tick
               ELSE [tick EXCEPT !.done = TRUE, !.to = state]
    /\ attempt' = 0
    /\ poll' = 0
    /\ confirmations' = 0
    /\ belts_left' = 0
    /\ mon' = [mon EXCEPT !.e2e = 0, !.waits = 0]
    /\ UNCHANGED <<botVars, should_run, thr_running, guiVars, cnt>>
    /\ UNCHANGED vis

\* ------------------------------------------------------- specification
GuiStep == StartCmd \/ StopCmd \/ TimerFire \/ DockNow

HandlerStep ==
    \/ HandleCheckCargo \/ HandleScanning \/ HandleApproaching
    \/ LockScan \/ LockVerify \/ LockReverify
    \/ HandleMining \/ MiningCargo
    \/ DockFindDropOff \/ DockFindDock \/ DockPoll
    \/ UnloadTabs \/ UnloadOre \/ UnloadVerify
    \/ UndockFind \/ UndockPoll
    \/ TravelScan \/ TravelBelt \/ TravelAppear \/ TravelWait \/ TravelResume

ThreadStep ==
    \/ LoopStart \/ StartProbe \/ LoopCheck \/ LoopStop \/ Dispatch
    \/ HandlerStep

Next == GuiStep \/ ThreadStep \/ PerceptionRaises

Spec == Init /\ [][Next]_vars

\* The loop thread left alone after Start: no further click, no exception.
\* The thread is never starved: whatever step it can take, it takes.
LoopThread == LoopStart \/ StartProbe \/ LoopCheck \/ Dispatch \/ HandlerStep

AutoNext == StartCmd \/ LoopThread

LiveSpec == Init /\ [][AutoNext]_vars /\ WF_vars(LoopThread)

\* ------------------------------------- VisionSystem.read_inventory_tooltip
\* What the text of one method parses to, in tenths of m3: the current
\* value, the max value as float(max_str) gives it, the value of max_str
\* with its dots removed (alt_max_1), and whether raw_max shows the
\* missing-dot pattern (a comma, no dot, 4 digits after the last comma).
Parse(c, m, nd, c4) == [current |-> c, max |-> m, nodots |-> nd, comma4 |-> c4]

\* No 'number / number' in the text, or a float() that raises.
NoParse == [current |-> -1, max |-> -1, nodots |-> -1, comma4 |-> FALSE]

\* 30.0/100.0; 104.0/100.0; 106.0/100.0; 30.0/0.3 for 30.0/34.0 (a
\* separator read as the decimal point); 30.0/340.0 for 30.0/34.0 (the dot
\* missed); 30.0/10.0 beyond repair; 30.0/0; 30.0/100.5; 30.0/99.9: the
\* text each of the four methods reads, as parsed.
OcrInputs ==
    [1..4 ->
        { Parse(300, 1000, 10000, FALSE), Parse(1040, 1000, 10000, FALSE),
          Parse(1060, 1000, 10000, FALSE), Parse(300, 3, 3400, FALSE),
          Parse(300, 3400, 3400, TRUE),    Parse(300, 100, 100000, FALSE),
          Parse(300, 0, 0, FALSE),         Parse(300, 1005, 10050, FALSE),
          Parse(300, 999, 9990, FALSE) } \cup {NoParse}]

\* '0.5 < (current_val / alt) < 1.5'
Near(c, alt) == alt > 0 /\ alt < 2 * c /\ 2 * c < 3 * alt

\* max_val after the two repairs: the missing-dot pattern divides by 10;
\* then, if current is more than twice max, the dots of max_str are taken
\* for separators when that brings max within 50 % of current.
MissingDot(p) == IF p.comma4 THEN p.max \div 10 ELSE p.max

RepairedMax(p) ==
    LET m1 == MissingDot(p)
    IN  IF m1 > 0 /\ p.current > 2 * m1
        THEN IF Near(p.current, p.nodots) THEN p.nodots
             ELSE IF Near(p.current, p.nodots \div 10) THEN p.nodots \div 10
             ELSE m1
        ELSE m1

Surfaced_all(c, m) == TRUE

\* 'if percent > 105.0: continue' drops the reading.
Surfaced(c, m) == ~(c * 100 > 105 * m)

\* percent, (current_val / max_val) * 100.0, kept as the ratio it is.
Percent(c, m) == [num |-> 100 * c, den |-> m]

\* The entry a method appends to valid_results, if any.
Valid(p) == p # NoParse /\ RepairedMax(p) > 0 /\ Surfaced(p.current, RepairedMax(p))

Result(i, p) ==
    [current |-> p.current, max |-> RepairedMax(p),
     percent |-> Percent(p.current, RepairedMax(p)), method |-> <<"HSV", "Gray", "Fixed", "Dilated">>[i]]

RECURSIVE ValidResults(_, _)
ValidResults(ocr, i) ==
    IF i = 0 THEN << >>
    ELSE IF Valid(ocr[i]) THEN Append(ValidResults(ocr, i - 1), Result(i, ocr[i]))
    ELSE ValidResults(ocr, i - 1)

\* ---------------------------------------------- the text of one method
\* group(1) and group(2) of the 'number / number' match, as characters.
TooltipText(g1, g2) == [current |-> g1, raw_max |-> g2]

\* Matched texts, each with at most one digit after its last dot:
\* '30,049.3/34,3750' and its variants with the dot read, with three
\* digits in the last group, without comma, with a blank inside the last
\* group, with a trailing blank, with blanks for commas, with two commas,
\* with an early comma, with two dots in current, with no digit at all.
TooltipTexts ==
    { TooltipText(<<"3", "0", ",", "0", "4", "9", ".", "3">>,
                  <<"3", "4", ",", "3", "7", "5", "0">>),
      TooltipText(<<"3", "0", ",", "0", "4", "9", ".", "3">>,
                  <<"3", "4", ",", "3", "7", "5", ".", "0">>),
      TooltipText(<<"3", "0", ",", "0", "4", "9", ".", "3">>,
                  <<"3", "4", ",", "3", "7", "5">>),
      TooltipText(<<"3", "0", ",", "0", "4", "9", ".", "3">>,
                  <<"3", "4", "3", "7", "5", "0">>),
      TooltipText(<<"3", "0", ",", "0", "4", "9", ".", "3">>,
                  <<"3", "4", ",", "3", "7", " ", "5">>),
      TooltipText(<<"1", ",", "0", "0", "0", ".", "0">>,
                  <<"3", "4", ",", "3", "7", " ", "5">>),
      TooltipText(<<"1", ",", "0", "0", "0", ".", "0">>,
                  <<"3", "4", ",", "3", "7", "5", "0", " ">>),
      TooltipText(<<"3", "0", " ", "0", "4", "9", ".", "3">>,
                  <<"3", "4", " ", "3", "7", "5", ".", "0">>),
      TooltipText(<<"1", ",", "0", "0", "0", ".", "0">>,
                  <<"3", ",", "4", ",", "3", "7", "5", "0">>),
      TooltipText(<<"3", "0", ",", "0", "4", "9", ".", "3">>,
                  <<"3", ",", "4", "3", "7", "5", ".", "0">>),
      TooltipText(<<"1", ".", "0", "0", "0", ".", "0">>,
                  <<"3", "4", ",", "3", "7", "5", "0">>),
      TooltipText(<<"3", "0", ",", "0", "4", "9", ".", "3">>,
                  <<",">>) }

\* str.replace(ch, ''): the characters other than those of drop.
RECURSIVE Without(_, _)
Without(str, drop) ==
    IF str = << >> THEN << >>
    ELSE IF str[1] \in drop THEN Without(Tail(str), drop)
    ELSE <<str[1]>> \o Without(Tail(str), drop)

Count(str, ch) == Cardinality({ i \in DOMAIN str : str[i] = ch })

\* 'if s.count('.') > 1: s = s.replace('.', '', s.count('.') - 1)': all
\* dots but the last are removed.
RECURSIVE ExtraDots(_)
ExtraDots(str) ==
    IF Count(str, ".") <= 1 THEN str
    ELSE LET i == CHOOSE k \in DOMAIN str :
                      str[k] = "." /\ \A j \in 1..(k - 1) : str[j] # "."
         IN  ExtraDots(SubSeq(str, 1, i - 1) \o SubSeq(str, i + 1, Len(str)))

Digit(ch) ==
    CASE ch = "0" -> 0 [] ch = "1" -> 1 [] ch = "2" -> 2 [] ch = "3" -> 3
      [] ch = "4" -> 4 [] ch = "5" -> 5 [] ch = "6" -> 6 [] ch = "7" -> 7
      [] ch = "8" -> 8 [] ch = "9" -> 9

RECURSIVE Digits(_)
Digits(str) ==
    IF str = << >> THEN 0
    ELSE 10 * Digits(SubSeq(str, 1, Len(str) - 1)) + Digit(str[Len(str)])

\* float(str) in tenths, of digits with at most one dot and at most one
\* digit after it; -1 where float() raises (no digit).
Float(str) ==
    IF Without(str, {"."}) = << >> THEN -1
    ELSE IF Count(str, ".") = 0 THEN 10 * Digits(str)
    ELSE IF str[Len(str)] = "." THEN 10 * Digits(Without(str, {"."}))
    ELSE Digits(Without(str, {"."}))

\* str.strip() of blanks.
RECURSIVE Strip(_)
Strip(str) ==
    IF str # << >> /\ str[1] = " " THEN Strip(Tail(str))
    ELSE IF str # << >> /\ str[Len(str)] = " " THEN Strip(SubSeq(str, 1, Len(str) - 1))
    ELSE str

\* raw_max.strip().split(',')[-1]: what follows the last comma.
RECURSIVE LastPart(_)
LastPart(str) ==
    IF Count(str, ",") = 0 THEN str
    ELSE LastPart(Tail(str))

\* "',' in raw_max and '.' not in raw_max" and, of the stripped text,
\* 'len(parts) > 1 and len(parts[-1].strip()) == 4'.
MissingDotPattern(raw_max) ==
    /\ Count(raw_max, ",") > 0
    /\ Count(raw_max, ".") = 0
    /\ Len(Strip(LastPart(Strip(raw_max)))) = 4

\* What the text parses to: current_val, max_val as float(max_str),
\* float of max_str without dots, and the pattern.
ParseText(t) ==
    LET current_str == ExtraDots(Without(t.current, {",", " "}))
        max_str == ExtraDots(Without(t.raw_max, {",", " "}))
    IN  IF Float(current_str) < 0 \/ Float(max_str) < 0 THEN NoParse
        ELSE Parse(Float(current_str), Float(max_str),
                   Float(Without(max_str, {"."})), MissingDotPattern(t.raw_max))

\* The candidate one method's text yields: current, max after the
\* missing-dot rule alone, max after both repairs, percent, and whether
\* it is appended to valid_results.
Candidate(p) ==
    IF p = NoParse
    THEN [current |-> 0, max_1 |-> 0, max |-> 0, percent |-> Percent(0, 1), valid |-> FALSE]
    ELSE [current |-> p.current, max_1 |-> MissingDot(p), max |-> RepairedMax(p),
          percent |-> Percent(p.current, RepairedMax(p)), valid |-> Valid(p)]

\* int(r['max']): whole m3.
IntMax(r) == r.max \div 10

Votes(vr, v) == Cardinality({ i \in DOMAIN vr : IntMax(vr[i]) = v })

\* The first of the indices in S.
First(S) ==
    CHOOSE i \in S : \A j \in S : i <= j

\* Counter.most_common(): the values with the top count, and of them the
\* one counted first; on a tie the value Dilated supports, else the one
\* Fixed supports.
WinnerMax(vr) ==
    LET top == CHOOSE n \in 1..Len(vr) :
                   /\ \E i \in DOMAIN vr : Votes(vr, IntMax(vr[i])) = n
                   /\ \A i \in DOMAIN vr : Votes(vr, IntMax(vr[i])) <= n
        candidates == { IntMax(vr[i]) : i \in { j \in DOMAIN vr : Votes(vr, IntMax(vr[j])) = top } }
        Supports(mth, r) == r.method = mth /\ IntMax(r) \in candidates
        IsCandidate(r) == IntMax(r) \in candidates
        Dilated(r) == Supports("Dilated", r)
        Fixed(r) == Supports("Fixed", r)
    IN  IF Cardinality(candidates) > 1 /\ \E i \in DOMAIN vr : Dilated(vr[i])
        THEN IntMax(vr[First({ k \in DOMAIN vr : Dilated(vr[k]) })])
        ELSE IF Cardinality(candidates) > 1 /\ \E i \in DOMAIN vr : Fixed(vr[i])
        THEN IntMax(vr[First({ k \in DOMAIN vr : Fixed(vr[k]) })])
        ELSE IntMax(vr[First({ k \in DOMAIN vr : IsCandidate(vr[k]) })])

\* The entry returned for the winning max: Dilated's, else Fixed's, else
\* the first.
BestResult(vr) ==
    LET w == WinnerMax(vr)
        ByDilated(r) == IntMax(r) = w /\ r.method = "Dilated"
        ByFixed(r) == IntMax(r) = w /\ r.method = "Fixed"
        ByAny(r) == IntMax(r) = w
    IN  IF \E i \in DOMAIN vr : ByDilated(vr[i]) THEN vr[First({ k \in DOMAIN vr : ByDilated(vr[k]) })]
        ELSE IF \E i \in DOMAIN vr : ByFixed(vr[i]) THEN vr[First({ k \in DOMAIN vr : ByFixed(vr[k]) })]
        ELSE vr[First({ k \in DOMAIN vr : ByAny(vr[k]) })]

\* (current, max, percent) of an entry; (0.0, 0.0, 0.0) without one.
Returned(r) == [current |-> r.current, max |-> r.max, percent |-> r.percent]

NoReading == [current |-> 0, max |-> 0, percent |-> [num |-> 0, den |-> 1]]

read_inventory_tooltip(ocr) ==
    LET vr == ValidResults(ocr, 4)
    IN  IF vr = << >> THEN NoReading
        ELSE IF Len(vr) = 1 THEN Returned(vr[1])
        ELSE Returned(BestResult(vr))

\* ------------------------------------------------- scan_overview rows
\* One line entry of one preprocessing variant, as 'entry' is built: the
\* line's text, the ore name found in it, the click y, and the flags.
LineEntry(t, n, y, a, d) ==
    [text |-> t, name |-> n, y |-> y, is_asteroid |-> a, distance |-> d]

\* Line entries the four variants can produce for one overview.
PoolEntries ==
    { LineEntry("Veldspar 12 km", "Veldspar", 100, TRUE, 120),
      LineEntry("Veldspar 17 km", "Veldspar", 100, TRUE, 170),
      LineEntry("Veldspar 12 km", "Veldspar", 104, TRUE, 120),
      LineEntry("Asteroid 1,200 m", "Asteroid", 104, TRUE, 12),
      LineEntry("Capsuleer Wreck 12 km", NoName, 109, FALSE, 120),
      LineEntry("Scordite 9 km", "Scordite", 118, TRUE, 90),
      LineEntry("Asteroid Belt I", NoName, 119, FALSE, UnknownDist),
      LineEntry("Veldspar 12 km", "Veldspar", 130, TRUE, 120) }

\* all_results.sort(key=lambda r: r['y']): stable, equal y keep their
\* order.
RECURSIVE SortedByY(_)
SortedByY(all) ==
    IF all = << >> THEN << >>
    ELSE LET t == SortedByY(SubSeq(all, 1, Len(all) - 1))
             x == all[Len(all)]
             k == Cardinality({ i \in DOMAIN t : t[i].y <= x.y })
         IN  SubSeq(t, 1, k) \o <<x>> \o SubSeq(t, k + 1, Len(t))

Abs(n) == IF n < 0 THEN -n ELSE n

\* 'if abs(entry['y'] - prev['y']) < 10'.
SameRow_inclusive(entry, prev) == Abs(entry.y - prev.y) <= 10
SameRow(entry, prev) == Abs(entry.y - prev.y) < 10

\* The groups the loop closes, in order: an entry joins current_group when
\* it is in the row of the group's last entry, else opens a new group.
RECURSIVE Groups(_)
Groups(sorted) ==
    IF sorted = << >> THEN << >>
    ELSE LET g == Groups(SubSeq(sorted, 1, Len(sorted) - 1))
             entry == sorted[Len(sorted)]
         IN  IF g # << >> /\ SameRow(entry, g[Len(g)][Len(g[Len(g)])])
             THEN [g EXCEPT ![Len(g)] = Append(@, entry)]
             ELSE Append(g, <<entry>>)

\* max(seq, key=lambda r: len(r['text'])): the first of the longest.
Longest(seq) ==
    seq[CHOOSE i \in DOMAIN seq :
            /\ \A j \in DOMAIN seq : Len(seq[j].text) <= Len(seq[i].text)
            /\ \A j \in 1..(i - 1) : Len(seq[j].text) < Len(seq[i].text)]

pick_best_result(group) ==
    LET ores == SelectSeq(group, LAMBDA r : r.name # NoName /\ r.name # "Asteroid")
        asteroids == SelectSeq(group, LAMBDA r : r.is_asteroid)
    IN  IF ores # << >> THEN Longest(ores)
        ELSE IF asteroids # << >> THEN Longest(asteroids)
        ELSE Longest(group)

\* final_results of scan_overview for the pooled entries.
FinalResults(all) ==
    LET g == Groups(SortedByY(all))
    IN  [i \in DOMAIN g |-> pick_best_result(g[i])]

\* ------------------------------------------------ find_text_in_region
\* Texts are sequences of characters, lower-cased as the code lower-cases
\* them; << >> is a box whose text is empty after strip().
\* The words compared with the texts read, as characters.
Chars ==
    [ warp |-> <<"w", "a", "r", "p">>,
      warping |-> <<"w", "a", "r", "p", "i", "n", "g">>,
      to |-> <<"t", "o">>,
      within |-> <<"w", "i", "t", "h", "i", "n">>,
      withln |-> <<"w", "i", "t", "h", "l", "n">>,
      undock |-> <<"u", "n", "d", "o", "c", "k">>,
      endock |-> <<"e", "n", "d", "o", "c", "k">>,
      undocking |-> <<"u", "n", "d", "o", "c", "k", "i", "n", "g">>,
      undack |-> <<"u", "n", "d", "a", "c", "k">>,
      guests |-> <<"g", "u", "e", "s", "t", "s">>,
      selected_item |-> <<"s", "e", "l", "e", "c", "t", "e", "d", " ", "i", "t", "e", "m">>,
      no_object_selected |-> <<"n", "o", " ", "o", "b", "j", "e", "c", "t", " ", "s", "e", "l", "e", "c", "t", "e", "d">>,
      no_object |-> <<"n", "o", " ", "o", "b", "j", "e", "c", "t">>,
      no_target |-> <<"n", "o", " ", "t", "a", "r", "g", "e", "t">>,
      distance |-> <<"d", "i", "s", "t", "a", "n", "c", "e">>,
      veldspar |-> <<"v", "e", "l", "d", "s", "p", "a", "r">>,
      asteroid |-> <<"a", "s", "t", "e", "r", "o", "i", "d">>,
      asteroid_be |-> <<"a", "s", "t", "e", "r", "o", "i", "d", " ", "b", "e">>,
      asteroid_b |-> <<"a", "s", "t", "e", "r", "o", "i", "d", " ", "b">>,
      au |-> <<"a", "u">> ]

\* Box texts one OCR pass can report.
BoxTexts == { << >>, Chars.warp, Chars.warping, Chars.to, Chars.within, Chars.withln,
              Chars.undock, Chars.endock, Chars.undocking, Chars.undack }

\* target_text.lower().split() of the calls the controller makes.
Targets == { <<Chars.undock>>, <<Chars.within>>, <<Chars.warp, Chars.to>>,
             <<Chars.warp, Chars.to, Chars.within>> }

\* The box texts of the passes made (variant by variant, granularity by
\* granularity), here of two passes with MaxBoxes boxes between them.
BoxesOf(k) == { b \in SeqsUpTo(BoxTexts, k) : Len(b) = k }

\* 'a in b' on str.
Substring(a, b) ==
    \E i \in 1..(Len(b) - Len(a) + 1) : SubSeq(b, i, i + Len(a) - 1) = a

\* difflib.SequenceMatcher(None, a, b): the length of the longest block
\* a and b share, and the number of characters in the matching blocks
\* (the longest block, earliest in a and then in b, and recursively the
\* blocks to its left and to its right).
LongestBlock(a, b) ==
    LET sizes == { k \in 0..Len(a) :
                     \E i \in 1..(Len(a) - k + 1), j \in 1..(Len(b) - k + 1) :
                         SubSeq(a, i, i + k - 1) = SubSeq(b, j, j + k - 1) }
    IN  CHOOSE k \in sizes : \A n \in sizes : n <= k

RECURSIVE Matching(_, _)
Matching(a, b) ==
    IF a = << >> \/ b = << >> THEN 0
    ELSE LET k == LongestBlock(a, b)
             Starts(i) == { j \in 1..(Len(b) - k + 1) :
                              SubSeq(a, i, i + k - 1) = SubSeq(b, j, j + k - 1) }
             i == CHOOSE x \in 1..(Len(a) - k + 1) :
                      /\ Starts(x) # {}
                      /\ \A z \in 1..(x - 1) : Starts(z) = {}
             j == CHOOSE x \in Starts(i) : \A z \in Starts(i) : x <= z
         IN  IF k = 0 THEN 0
             ELSE k + Matching(SubSeq(a, 1, i - 1), SubSeq(b, 1, j - 1))
                    + Matching(SubSeq(a, i + k, Len(a)), SubSeq(b, j + k, Len(b)))

\* .ratio(): 2.0 * matches / (len(a) + len(b)), as a fraction.
Ratio(a, b) == [num |-> 2 * Matching(a, b), den |-> Len(a) + Len(b)]

AtLeast_always(r, q) == TRUE

\* Comparisons of similarity scores.
AtLeast(r, q) == r.num * q.den >= q.num * r.den
Above(r, q) == r.num * q.den > q.num * r.den

\* The misreads of 'undock' taken as a 0.95 match.
Aliases == { <<"e", "n", "d", "o">>, <<"u", "n", "d", "o", "c">>, <<"n", "d", "o", "c", "k">>, <<"d", "o", "c", "e">>, <<"e", "u", "n", "o", "s">>, <<"[", "c", "k">> }
AliasRatio == [num |-> 95, den |-> 100]

\* threshold of the fuzzy check for a target and the ratio found.
Threshold(target_lower, ratio) ==
    IF target_lower = Chars.within THEN [num |-> 85, den |-> 100]
    ELSE IF target_lower = Chars.guests /\ ~AtLeast(ratio, [num |-> 8, den |-> 10])
    THEN [num |-> 8, den |-> 10]
    ELSE IF Len(target_lower) <= 6 THEN [num |-> 6, den |-> 10]
    ELSE [num |-> 8, den |-> 10]

\* The single-word test of one box: 'text == target_lower' when
\* exact_match, else 'target_lower in text'.
WordMatch(text, target_lower, exact_match) ==
    IF exact_match THEN text = target_lower ELSE Substring(target_lower, text)

\* The fuzzy candidates one unmatched box adds, alias first and then the
\* ratio; none when exact_match.
FuzzyAfter(best, text, target_lower, exact_match, p, i) ==
    LET cand(r) == [found |-> TRUE, pass |-> p, box |-> i, ratio |-> r]
        b1 == IF target_lower = Chars.undock
                 /\ (\E alias \in Aliases : Substring(alias, text))
                 /\ Above(AliasRatio, best.ratio)
              THEN cand(AliasRatio) ELSE best
        ratio == Ratio(target_lower, text)
    IN  IF exact_match \/ Len(text) <= 2 THEN best
        ELSE IF AtLeast(ratio, Threshold(target_lower, ratio)) /\ Above(ratio, b1.ratio)
        THEN cand(ratio) ELSE b1

\* The phrase walk from box scan_idx on: every further target word is
\* contained in the next non-empty box.
RECURSIVE PhraseFrom(_, _, _, _)
PhraseFrom(boxes, target_words, word_idx, scan_idx) ==
    IF word_idx > Len(target_words) THEN TRUE
    ELSE IF scan_idx > Len(boxes) THEN FALSE
    ELSE IF boxes[scan_idx] = << >>
    THEN PhraseFrom(boxes, target_words, word_idx, scan_idx + 1)
    ELSE /\ Substring(target_words[word_idx], boxes[scan_idx])
         /\ PhraseFrom(boxes, target_words, word_idx + 1, scan_idx + 1)

PhraseMatch(boxes, i, target_words) ==
    /\ Substring(target_words[1], boxes[i])
    /\ PhraseFrom(boxes, target_words, 2, i + 1)

\* The loop over passes and boxes from box i of pass p on, with the best
\* fuzzy candidate so far: the first match returns at once, the best
\* fuzzy candidate is returned after the last pass.
RECURSIVE FindFrom(_, _, _, _, _, _)
FindFrom(passes, target_words, exact_match, p, i, best) ==
    IF p > Len(passes)
    THEN [found |-> best.found, pass |-> best.pass, box |-> best.box, exact |-> FALSE]
    ELSE IF i > Len(passes[p])
    THEN FindFrom(passes, target_words, exact_match, p + 1, 1, best)
    ELSE IF passes[p][i] = << >>
    THEN FindFrom(passes, target_words, exact_match, p, i + 1, best)
    ELSE IF Len(target_words) = 1
    THEN IF WordMatch(passes[p][i], target_words[1], exact_match)
         THEN [found |-> TRUE, pass |-> p, box |-> i, exact |-> TRUE]
         ELSE FindFrom(passes, target_words, exact_match, p, i + 1,
                       FuzzyAfter(best, passes[p][i], target_words[1],
                                  exact_match, p, i))
    ELSE IF PhraseMatch(passes[p], i, target_words)
         THEN [found |-> TRUE, pass |-> p, box |-> i, exact |-> TRUE]
         ELSE FindFrom(passes, target_words, exact_match, p, i + 1, best)

find_text_in_region(passes, target_words, exact_match) ==
    FindFrom(passes, target_words, exact_match, 1, 1,
             [found |-> FALSE, pass |-> 0, box |-> 0, ratio |-> [num |-> 0, den |-> 1]])

\* A perception call on its own: the input is chosen, then the call
\* returns.
\* ------------------------------------------------ has_selected_target
\* str.lower() on the letters.
Letters ==
    [ upper |-> <<"A", "B", "C", "D", "E", "F", "G", "H", "I", "J", "K", "L", "M", "N", "O", "P", "Q", "R", "S", "T", "U", "V", "W", "X", "Y", "Z">>,
      lower |-> <<"a", "b", "c", "d", "e", "f", "g", "h", "i", "j", "k", "l", "m", "n", "o", "p", "q", "r", "s", "t", "u", "v", "w", "x", "y", "z">> ]

Lower(str) ==
    [i \in DOMAIN str |->
        IF \E k \in DOMAIN Letters.upper : Letters.upper[k] = str[i]
        THEN Letters.lower[CHOOSE k \in DOMAIN Letters.upper : Letters.upper[k] = str[i]]
        ELSE str[i]]

\* str.replace(old, ''): the occurrences of old removed, left to right.
RECURSIVE Replace(_, _)
Replace(str, old) ==
    IF Len(str) < Len(old) THEN str
    ELSE IF SubSeq(str, 1, Len(old)) = old
    THEN Replace(SubSeq(str, Len(old) + 1, Len(str)), old)
    ELSE <<str[1]>> \o Replace(Tail(str), old)

\* str.split(sep) on one character: the pieces between separators.
RECURSIVE Split(_, _)
Split(str, sep) ==
    IF \A i \in DOMAIN str : str[i] # sep THEN <<str>>
    ELSE LET i == CHOOSE k \in DOMAIN str :
                      str[k] = sep /\ \A j \in 1..(k - 1) : str[j] # sep
         IN  <<SubSeq(str, 1, i - 1)>> \o Split(SubSeq(str, i + 1, Len(str)), sep)

\* str.split(): the non-empty pieces between blanks.
Words(str) == SelectSeq(Split(str, " "), LAMBDA w : w # << >>)


\* The UI words removed from a line before its words are compared, in
\* the order of the loop.
Noise == << Chars.distance, <<"k", "m">>, <<"m">>, <<"a", "u">>, <<"t", "y", "p", "e">>, <<"n", "a", "m", "e">>,
            <<"s", "e", "l", "e", "c", "t", "e", "d">>, <<"i", "t", "e", "m">> >>

RECURSIVE CleanFrom(_, _)
CleanFrom(line, k) ==
    IF k > Len(Noise) THEN line ELSE CleanFrom(Replace(line, Noise[k]), k + 1)

\* 'yald', 'vald', 'veld' in a word, when the target holds 'veldspar'.
VeldAliases == { <<"y", "a", "l", "d">>, <<"v", "a", "l", "d">>, <<"v", "e", "l", "d">> }

Negative(str) == Substring(Chars.no_object, str) \/ Substring(Chars.no_target, str)

\* One word of a cleaned line sets found_target_name: it has 4 characters
\* or more and resembles a part of the target name, or holds a veldspar
\* alias when the target holds 'veldspar', or resembles 'asteroid'.
WordVerifies(word, target_lower) ==
    /\ Len(word) >= 4
    /\ \/ \E k \in DOMAIN Words(target_lower) :
              Above(Ratio(Words(target_lower)[k], word), [num |-> 7, den |-> 10])
       \/ /\ Substring(Chars.veldspar, target_lower)
          /\ \E alias \in VeldAliases : Substring(alias, word)
       \/ Above(Ratio(Chars.asteroid, word), [num |-> 7, den |-> 10])

\* The loop over the lines of one variant's text from line k on, with
\* has_content so far: has_content and found_target_name when it ends.
RECURSIVE LinesFrom(_, _, _, _)
LinesFrom(lines, k, target_name, has_content) ==
    IF k > Len(lines) THEN [has_content |-> has_content, found_target_name |-> FALSE]
    ELSE LET line == Strip(lines[k])
             clean == CleanFrom(line, 1)
         IN  IF Len(line) < 3
             THEN LinesFrom(lines, k + 1, target_name, has_content)
             ELSE IF Above(Ratio(Chars.selected_item, line), [num |-> 8, den |-> 10])
             THEN LinesFrom(lines, k + 1, target_name, has_content)
             ELSE IF \/ Above(Ratio(Chars.no_object_selected, line), [num |-> 55, den |-> 100])
                     \/ Negative(line)
             THEN [has_content |-> FALSE, found_target_name |-> FALSE]
             ELSE IF target_name = << >>
             THEN [has_content |-> TRUE, found_target_name |-> FALSE]
             ELSE IF Negative(clean)
             THEN LinesFrom(lines, k + 1, target_name, TRUE)
             ELSE IF \E i \in DOMAIN Words(clean) :
                        WordVerifies(Words(clean)[i], Lower(target_name))
             THEN [has_content |-> TRUE, found_target_name |-> TRUE]
             ELSE LinesFrom(lines, k + 1, target_name, TRUE)

\* One variant: a text saying 'no object' or 'no target' is passed over;
\* otherwise the variant returns True when it has content and, with a
\* target name, found the name.
MethodAccepts(text, target_name) ==
    LET text_lower == Lower(text)
        r == LinesFrom(Split(text_lower, "\n"), 1, target_name, FALSE)
    IN  /\ ~Negative(text_lower)
        /\ r.has_content
        /\ target_name # << >> => r.found_target_name

\* The seven variants, in the order they are tried.
SelectedMethods ==
    <<"HSV", "Gray", "Fixed", "Dilated", "Adaptive", "Shadows", "HighContrast">>

has_selected_target(texts, target_name) ==
    \E m \in DOMAIN SelectedMethods : MethodAccepts(texts[m], target_name)

\* Texts one variant can read off the Selected Item window: the header
\* and the name; a misread name alone; another ore; an asteroid of
\* another ore; no selection, read well and misread; nothing; the
\* distance line alone; a fragment.
PanelTexts ==
    { <<"S", "e", "l", "e", "c", "t", "e", "d", " ", "I", "t", "e", "m", "\n", "V", "e", "l", "d", "s", "p", "a", "r">>,
      <<"V", "a", "l", "d">>,
      <<"S", "c", "o", "r", "d", "i", "t", "e">>,
      <<"A", "s", "t", "e", "r", "o", "i", "d", " ", "(", "S", "c", "o", "r", "d", "i", "t", "e", ")">>,
      <<"N", "o", " ", "O", "b", "j", "e", "c", "t", " ", "S", "e", "l", "e", "c", "t", "e", "d">>,
      <<"N", "o", " ", "O", "b", "j", "e", "c", "i", " ", "S", "e", "l", "e", "c", "i", "e", "d">>,
      << >>,
      <<"D", "i", "s", "t", "a", "n", "c", "e", " ", "1", "2", " ", "k", "m">>,
      <<"V", "e", "l">> }

\* current_target_name: none, an ore, an ore with its grade.
TargetNames ==
    { << >>, <<"V", "e", "l", "d", "s", "p", "a", "r">>, <<"S", "c", "o", "r", "d", "i", "t", "e">>,
      <<"C", "o", "n", "c", "e", "n", "t", "r", "a", "t", "e", "d", " ", "V", "e", "l", "d", "s", "p", "a", "r">> }


\* ------------------------------------------- scan_overview line class
\* 'bad_words' and the two 'asteroid b' checks.
bad_words ==
    << <<"b", "e", "l", "t">>,
       <<"b", "e", "l">>,
       <<"d", "e", "l", "t">>,
       <<"b", "e", "i", "t">>,
       <<"b", "e", "l", "f">>,
       <<"d", "o", "t", "t">>,
       <<"d", "o", "l", "t">>,
       <<"c", "l", "u", "s", "t", "e", "r">>,
       <<"c", "o", "u", "s", "t", "e", "r">> >>


\* valid_ores of scan_overview, in the order they are tried.
valid_ores ==
    << <<"v", "e", "l", "d", "s", "p", "a", "r">>,
       <<"s", "c", "o", "r", "d", "i", "t", "e">>,
       <<"p", "y", "r", "o", "x", "e", "r", "e", "s">>,
       <<"p", "l", "a", "g", "i", "o", "c", "l", "a", "s", "e">>,
       <<"k", "e", "r", "n", "i", "t", "e">>,
       <<"j", "a", "s", "p", "e", "t">>,
       <<"o", "m", "b", "e", "r">>,
       <<"h", "e", "m", "o", "r", "p", "h", "i", "t", "e">>,
       <<"h", "e", "d", "b", "e", "r", "g", "i", "t", "e">> >>

\* str.capitalize().
Capitalize(str) ==
    [i \in DOMAIN str |->
        IF i = 1 /\ \E k \in DOMAIN Letters.lower : Letters.lower[k] = str[i]
        THEN Letters.upper[CHOOSE k \in DOMAIN Letters.lower : Letters.lower[k] = str[i]]
        ELSE Lower(str)[i]]

\* str.isdigit().
IsDigit(str) ==
    /\ str # << >>
    /\ \A i \in DOMAIN str :
           str[i] \in {"0", "1", "2", "3", "4", "5", "6", "7", "8", "9"}

\* found_ore_name is None.
NoOre == << >>

is_belt(text_lower) ==
    \/ \E k \in DOMAIN bad_words : Substring(bad_words[k], text_lower)
    \/ Substring(Chars.asteroid_be, text_lower)
    \/ Substring(Chars.asteroid_b, text_lower)

is_far(text_lower) == Substring(Chars.au, text_lower)

\* The first ore of valid_ores contained in the text.
ExactOre(text_lower) ==
    IF \E k \in DOMAIN valid_ores : Substring(valid_ores[k], text_lower)
    THEN valid_ores[First({ k \in DOMAIN valid_ores : Substring(valid_ores[k], text_lower) })]
    ELSE NoOre

\* The first ore a word resembles (ratio above 0.8); words shorter than 4
\* and numbers are skipped.
Resembles(word) ==
    { k \in DOMAIN valid_ores :
        Above(Ratio(word, valid_ores[k]), [num |-> 8, den |-> 10]) }

FuzzyOre(text_lower) ==
    LET words == Words(text_lower)
        hits == { i \in DOMAIN words :
                   /\ Len(words[i]) >= 4 /\ ~IsDigit(words[i])
                   /\ Resembles(words[i]) # {} }
    IN  IF hits = {} THEN NoOre
        ELSE valid_ores[First(Resembles(words[First(hits)]))]

\* is_valid_asteroid of a line.
is_valid_asteroid(is_ore, text_lower) ==
    is_ore \/ (Substring(Chars.asteroid, text_lower)
                  /\ ~is_belt(text_lower) /\ ~is_far(text_lower))

\* The class of one line: found_ore_name and is_valid_asteroid, with the
\* name 'Asteroid' for an asteroid without an ore name.
Classify(full_text) ==
    LET text_lower == Lower(full_text)
        exact == ExactOre(text_lower)
        ore == IF exact # NoOre THEN exact ELSE FuzzyOre(text_lower)
        valid == is_valid_asteroid(ore # NoOre, text_lower)
    IN  [name |-> IF ore # NoOre THEN Capitalize(ore)
                  ELSE IF valid THEN Capitalize(Chars.asteroid) ELSE NoOre,
         is_asteroid |-> valid]

\* Lines the overview can show, as one variant reads them.
OverviewLines ==
    { <<"V", "e", "l", "d", "s", "p", "a", "r", " ", "1", "2", " ", "k", "m">>,
      <<"S", "c", "a", "r", "d", "i", "t", "e", " ", "9", " ", "k", "m">>,
      <<"A", "s", "t", "e", "r", "o", "i", "d", " ", "1", ",", "2", "0", "0", " ", "m">>,
      <<"A", "s", "t", "e", "r", "o", "i", "d", " ", "B", "e", "l", "t", " ", "I">>,
      <<"A", "s", "t", "e", "r", "o", "i", "d", " ", "B", "e", "i", "t", " ", "I">>,
      <<"A", "s", "t", "e", "r", "o", "i", "d", " ", "2", ".", "1", " ", "A", "U">>,
      <<"V", "e", "l", "d", "s", "p", "a", "r", " ", "2", ".", "1", " ", "A", "U">>,
      <<"V", "e", "l", "d", "s", "p", "a", "r", " ", "B", "e", "l", "t", " ", "1", "2", " ", "k", "m">>,
      <<"C", "a", "p", "s", "u", "l", "e", "e", "r", " ", "W", "r", "e", "c", "k", " ", "1", "2", " ", "k", "m">>,
      <<"1", "2", "3", "4", " ", "5", "6", "7", "8">>,
      <<"V", "e", "l", " ", "1", "2", " ", "k", "m">> }

VisionInit ==
    /\ Constructed
    /\ \/ \E ocr \in OcrInputs :
            vis = [fn |-> "tooltip", in |-> ocr, called |-> FALSE, out |-> NoReading]
       \/ \E all \in SeqsUpTo(PoolEntries, MaxPool) :
            vis = [fn |-> "scan", in |-> all, called |-> FALSE, out |-> << >>]
       \/ \E t \in TooltipTexts :
            vis = [fn |-> "parse", in |-> t, called |-> FALSE,
                   out |-> Candidate(NoParse)]
       \/ \E k \in 0..MaxBoxes, t \in Targets, e \in BOOLEAN :
            \E p1 \in BoxesOf(k), p2 \in SeqsUpTo(BoxTexts, MaxBoxes - k) :
                vis = [fn |-> "find",
                       in |-> [passes |-> <<p1, p2>>, target_words |-> t,
                               exact_match |-> e],
                       called |-> FALSE,
                       out |-> [found |-> FALSE, pass |-> 0, box |-> 0,
                                exact |-> FALSE]]
       \/ \E line \in OverviewLines :
            vis = [fn |-> "classify", in |-> line, called |-> FALSE,
                   out |-> [name |-> NoOre, is_asteroid |-> FALSE]]
       \/ \E a \in PanelTexts, b \in PanelTexts, t \in TargetNames :
            \E n \in 0..Len(SelectedMethods) :
                vis = [fn |-> "selected",
                       in |-> [texts |-> [m \in DOMAIN SelectedMethods |->
                                            IF m <= n THEN a ELSE b],
                               target_name |-> t],
                       called |-> FALSE, out |-> FALSE]

ReadTooltip ==
    /\ vis.fn = "tooltip"
    /\ ~vis.called
    /\ vis' = [vis EXCEPT !.called = TRUE, !.out = read_inventory_tooltip(vis.in)]
    /\ UNCHANGED <<botVars, thrVars, guiVars, obsVars>>

ScanOverview ==
    /\ vis.fn = "scan"
    /\ ~vis.called
    /\ vis' = [vis EXCEPT !.called = TRUE, !.out = FinalResults(vis.in)]
    /\ UNCHANGED <<botVars, thrVars, guiVars, obsVars>>

FindText ==
    /\ vis.fn = "find"
    /\ ~vis.called
    /\ vis' = [vis EXCEPT !.called = TRUE,
                          !.out = find_text_in_region(vis.in.passes,
                                                      vis.in.target_words,
                                                      vis.in.exact_match)]
    /\ UNCHANGED <<botVars, thrVars, guiVars, obsVars>>

ParseTooltip ==
    /\ vis.fn = "parse"
    /\ ~vis.called
    /\ vis' = [vis EXCEPT !.called = TRUE, !.out = Candidate(ParseText(vis.in))]
    /\ UNCHANGED <<botVars, thrVars, guiVars, obsVars>>

SelectedTarget ==
    /\ vis.fn = "selected"
    /\ ~vis.called
    /\ vis' = [vis EXCEPT !.called = TRUE,
                          !.out = has_selected_target(vis.in.texts, vis.in.target_name)]
    /\ UNCHANGED <<botVars, thrVars, guiVars, obsVars>>

ClassifyLine ==
    /\ vis.fn = "classify"
    /\ ~vis.called
    /\ vis' = [vis EXCEPT !.called = TRUE, !.out = Classify(vis.in)]
    /\ UNCHANGED <<botVars, thrVars, guiVars, obsVars>>

VisionNext ==
    \/ ReadTooltip \/ ScanOverview \/ FindText \/ ParseTooltip
    \/ SelectedTarget \/ ClassifyLine

VisionSpec == VisionInit /\ [][VisionNext]_vars

\* ================================================================ claims

Edges ==
    { <<"CHECK_CARGO", "SCANNING">>,   <<"CHECK_CARGO", "DOCKING">>,
      <<"SCANNING", "APPROACHING">>,   <<"SCANNING", "TRAVELING">>,
      <<"APPROACHING", "SCANNING">>,   <<"APPROACHING", "LOCKING">>,
      <<"LOCKING", "MINING">>,         <<"LOCKING", "SCANNING">>,
      <<"MINING", "CHECK_CARGO">>,     <<"MINING", "DOCKING">>,
      <<"DOCKING", "UNLOADING">>,      <<"DOCKING", "IDLE">>,
      <<"UNLOADING", "UNDOCKING">>,    <<"UNLOADING", "IDLE">>,
      <<"UNDOCKING", "TRAVELING">>,    <<"UNDOCKING", "IDLE">>,
      <<"TRAVELING", "SCANNING">>,     <<"TRAVELING", "IDLE">> }

\* C1: a tick during which the operator did not force-dock leaves the
\* state it was dispatched in, or a state one edge of the transition
\* table away from it.
C1_TransitionTable ==
    (tick.done /\ ~tick.forced) =>
        (tick.to = tick.from \/ <<tick.from, tick.to>> \in Edges)

C1_Witness ==
    tick.done /\ ~tick.forced /\ tick.from = "TRAVELING" /\ tick.to = "SCANNING"

\* C2: a tick of DOCKING, UNLOADING, UNDOCKING or TRAVELING that met a
\* structural failure ends in IDLE with running cleared, and while running
\* is cleared the loop thread is in no handler: it makes no perception or
\* actuator call.
C2_StructuralFailureHalts ==
    /\ tick.fail => (tick.to = "IDLE" /\ (pc = "loop" => ~running))
    /\ ~running => pc \in {"loop", "update"}

C2_Witness ==
    /\ tick.fail
    /\ tick.from \in {"DOCKING", "UNLOADING", "UNDOCKING", "TRAVELING"}
    /\ ~running
    /\ state = "DOCKING"
    /\ pc = "update"

\* C3: while the controller is running, a DOCKING forced during a tick of
\* another handler stays until update() dispatches on it: no step of the
\* handler in flight overwrites it.
C3_ForceDockNotLost ==
    [][(state = "DOCKING" /\ ~tick.done /\ tick.from # "DOCKING" /\ running')
          => state' = "DOCKING"]_vars

\* C4: no handler is dispatched for a start that overtook a stop request:
\* between a Stop click and the next effect of a Start click the
\* controller has been stopped.
C4_StopHonoured ==
    [][(pc = "update" /\ pc' \notin {"loop", "update"}) => ~mon.restarted]_vars

\* C5: the controller does not stay in APPROACHING for ever.
C5_NoIndefiniteRetry ==
    [](state = "APPROACHING" => <>(state # "APPROACHING"))

\* C6: no exception of a perception call ends the loop thread.
C6_NoExceptionEscapes == pc # "crashed"

\* C7: a SCANNING tick leaves for TRAVELING exactly when its scan is the
\* 2nd empty one of consecutive SCANNING ticks.
C7_SecondEmptyScan ==
    (tick.done /\ tick.from = "SCANNING" /\ ~tick.forced) =>
        ((tick.to = "TRAVELING") <=> (mon.empty_streak = 2))

\* C8: a LOCKING tick that gives up (it returns to SCANNING although every
\* scan of it found an asteroid) has made exactly 3 scans, 3 lock
\* commands, 3 toggles and 6 verifications; no LOCKING tick makes more,
\* and after the 6th failed verification the tick has given up.
C8_LockGiveUp ==
    /\ (tick.done /\ tick.from = "LOCKING" /\ tick.to = "SCANNING" /\ ~tick.empty)
          => (cnt.scan = 3 /\ cnt.lock = 3 /\ cnt.toggle = 3 /\ cnt.verify = 6)
    /\ tick.from = "LOCKING" => (cnt.lock <= 3 /\ cnt.toggle <= 3)
    /\ (tick.from = "LOCKING" /\ cnt.verify = 6 /\ cnt.scanner = 0 /\ pc # "crashed")
          => (tick.done /\ tick.to = "SCANNING")

C8_Witness ==
    /\ tick.done /\ tick.from = "LOCKING" /\ tick.to = "SCANNING"
    /\ ~tick.empty /\ cnt.lock = 3 /\ cnt.toggle = 3

\* C9: the scenario, step by step: after the SCANNING tick that saw
\* Veldspar at 12.0 km the state is APPROACHING, the target name Veldspar
\* and no approach sent. A next tick that sees it at 14.0 km finds it in
\* range (below 15 km): the ship is stopped, no approach command is issued
\* and the state is LOCKING. A next tick that sees it at 15.0 km issues the
\* approach command once and stays in APPROACHING, and the tick after
\* that, seeing it at 9.0 km, stops the ship and moves to LOCKING.
C9_EndToEnd ==
    tick.done =>
        /\ mon.e2e = 1 => (tick.to = "APPROACHING" /\ current_target_name = "Veldspar"
                           /\ ~approach_command_sent)
        /\ mon.e2e = 2 => (tick.to = "LOCKING" /\ cnt.stop_ship = 1
                           /\ cnt.approach = 0 /\ ~approach_command_sent)
        /\ mon.e2e = 3 => (tick.to = "APPROACHING" /\ cnt.approach = 1
                           /\ cnt.stop_ship = 0 /\ approach_command_sent)
        /\ mon.e2e = 4 => (tick.to = "LOCKING" /\ cnt.stop_ship = 1
                           /\ cnt.approach = 0)

C9_Witness == tick.done /\ mon.e2e = 4 /\ state = "LOCKING"

\* C9 as stated: the tick that sees Veldspar at 14.0 km after the scan at
\* 12.0 km issues the approach command once and stays in APPROACHING.
C9_AsStated ==
    (tick.done /\ mon.e2e = 2) =>
        (tick.to = "APPROACHING" /\ cnt.approach = 1 /\ approach_command_sent)

\* C10: after a cargo check whose reading was neither unreadable nor
\* discarded, in a tick of CHECK_CARGO or MINING the operator did not
\* force-dock, the state is DOCKING exactly when current / max * 100 >= 99
\* on the validated values: 990 of 1000 docks, 989 of 1000 does not.
C10_CargoFullThreshold ==
    (tick.done /\ tick.chk.performed /\ ~tick.chk.discarded /\ ~tick.forced) =>
        /\ tick.from \in {"CHECK_CARGO", "MINING"}
        /\ (tick.to = "DOCKING") <=> (tick.chk.current * 1000 >= 990 * tick.chk.max)
        /\ (tick.chk.current = 989 /\ tick.chk.max = 1000) => tick.to # "DOCKING"
        /\ (tick.chk.current = 990 /\ tick.chk.max = 1000) => tick.to = "DOCKING"

C10_Witness ==
    /\ tick.done /\ ~tick.forced /\ tick.from = "MINING" /\ tick.to = "DOCKING"
    /\ tick.chk.performed /\ ~tick.chk.discarded
    /\ tick.chk.current = 990 /\ tick.chk.max = 1000

\* C11: known_max_cargo, once set, is changed by no step (cargo check,
\* stop, start or any other), and a cargo check that reads a max above
\* twice or below half the known value computes with the known value.
C11_KnownMaxDefended ==
    [][/\ known_max_cargo # NoMax => known_max_cargo' = known_max_cargo
       /\ (tick.chk.performed /\ tick.chk.known # NoMax /\ tick.chk.raw > 0
            /\ (tick.chk.raw > 2 * tick.chk.known \/ 2 * tick.chk.raw < tick.chk.known)
               => tick.chk.max = tick.chk.known)']_vars

C11_Witness ==
    /\ tick.chk.performed /\ tick.chk.known = 1000 /\ tick.chk.raw = 2500
    /\ tick.chk.max = 1000 /\ known_max_cargo = 1000

\* C12: a reading read_inventory_tooltip returns with max > 0 carries the
\* percent of its own current and max, current / max * 100, and that
\* percent is at most 105, whichever repairs and vote produced it.
C12_PercentConsistent ==
    (vis.fn = "tooltip" /\ vis.called /\ vis.out.max > 0) =>
        /\ vis.out.percent.num * vis.out.max
              = 100 * vis.out.current * vis.out.percent.den
        /\ vis.out.percent.den > 0
        /\ vis.out.percent.num <= 105 * vis.out.percent.den

C12_Witness ==
    /\ vis.fn = "tooltip" /\ vis.called
    /\ vis.in[1] = Parse(1060, 1000, 10000, FALSE)
    /\ vis.in[2] = Parse(300, 3, 3400, FALSE)
    /\ vis.in[3] = Parse(300, 1000, 10000, FALSE)
    /\ vis.in[4] = Parse(300, 3400, 3400, TRUE)
    /\ vis.out.max = 340

\* C13: a MINING tick leaves for CHECK_CARGO only as the 5th of
\* consecutive MINING ticks that each found the target not selected.
C13_FiveLosses ==
    (tick.done /\ tick.from = "MINING" /\ ~tick.forced /\ tick.to = "CHECK_CARGO")
        => mon.lost_streak = 5

\* C14: at the end of a tick that entered SCANNING from another state
\* scan_fail_count is 0, and at the end of a tick that entered MINING
\* lost_target_counter is 0.
C14_CountersResetAtEntry ==
    /\ (tick.done /\ tick.from # "SCANNING" /\ tick.to = "SCANNING")
          => scan_fail_count = 0
    /\ (tick.done /\ tick.from # "MINING" /\ tick.to = "MINING")
          => lost_target_counter = 0

\* C15: a DOCKING tick makes at most 40 polls; its confirmation count is
\* the number of polls in a row, up to the latest, that saw a docked
\* indicator (so a negative poll makes it 0); it reaches UNLOADING only
\* when the latest two polls both saw one; and a tick that polled without
\* reaching UNLOADING has made all 40 polls and halted.
C15_DockingConfirmation ==
    tick.from = "DOCKING" =>
        /\ cnt.polls <= 40
        /\ pc = "dock_poll" => (confirmations = mon.dock_streak /\ mon.dock_streak < 2)
        /\ (tick.done /\ tick.to = "UNLOADING")
              => (mon.dock_streak = 2 /\ cnt.polls >= 2)
        /\ (tick.done /\ cnt.polls > 0 /\ tick.to # "UNLOADING" /\ pc # "crashed")
              => (cnt.polls = 40 /\ mon.dock_streak < 2 /\ tick.fail
                  /\ tick.to = "IDLE" /\ (pc = "loop" => ~running))

C15_Witness ==
    /\ tick.done /\ tick.from = "DOCKING" /\ tick.to = "UNLOADING"
    /\ cnt.polls = 3 /\ mon.dock_streak = 2

\* C16: an UNLOADING tick that does not find 'Item Hangar' (either
\* capitalisation) or any ore name halts without a drag; one that misses
\* only 'Mining Hold' does not halt for that and goes on to the ore.
C16_UnloadLocators ==
    tick.from = "UNLOADING" =>
        /\ (tick.missing \cap {"Item Hangar", "ore"} # {})
              => (tick.done /\ tick.fail /\ tick.to = "IDLE" /\ cnt.drag = 0
                  /\ (pc = "loop" => ~running))
        /\ tick.missing = {"Mining Hold"} => ~tick.fail
        /\ tick.fail => tick.missing \cap {"Item Hangar", "ore"} # {}

C16_Witness ==
    /\ tick.done /\ tick.from = "UNLOADING" /\ tick.missing = {"Mining Hold"}
    /\ cnt.drag = 1 /\ tick.to = "UNDOCKING"

\* C16 as stated: an UNLOADING tick that does not find 'Mining Hold' halts
\* without a drag.
C16_AsStated ==
    (tick.done /\ tick.from = "UNLOADING" /\ "Mining Hold" \in tick.missing
     /\ pc # "crashed")
        => (tick.to = "IDLE" /\ cnt.drag = 0)

\* C17: UNLOADING moves to UNDOCKING only after the drag and the reading
\* of the hold that follows it, and exactly when that reading is below
\* 10 % or unreadable (max not above 0); a readable reading of 10 % or more
\* halts the controller.
C17_UnloadVerified ==
    (tick.done /\ tick.from = "UNLOADING") =>
        /\ tick.to = "UNDOCKING" => (tick.ver.read /\ cnt.drag = 1)
        /\ tick.ver.read =>
              IF tick.ver.max <= 0 \/ tick.ver.current * 10 < tick.ver.max
              THEN tick.to = "UNDOCKING"
              ELSE tick.to = "IDLE" /\ (pc = "loop" => ~running)

C17_Witness ==
    /\ tick.done /\ tick.from = "UNLOADING" /\ tick.to = "UNDOCKING"
    /\ tick.ver.read /\ tick.ver.max = 0

\* C17 as stated: UNLOADING moves to UNDOCKING only with a reading whose
\* max is above 0 and whose percent is below 10.
C17_AsStated ==
    (tick.done /\ tick.from = "UNLOADING" /\ tick.to = "UNDOCKING") =>
        (tick.ver.read /\ tick.ver.max > 0
         /\ tick.ver.current * 10 < tick.ver.max)

\* C18: an UNDOCKING tick clicks 'Undock' at most once and polls at most
\* 30 times, and only after the click; it reaches TRAVELING only after a
\* poll that found 'Undock' gone; otherwise it halts, either without a
\* click and a poll ('Undock' not found) or after 30 polls that all found
\* it.
C18_Undocking ==
    tick.from = "UNDOCKING" =>
        /\ cnt.click <= 1 /\ cnt.polls <= 30
        /\ (cnt.polls > 0 \/ pc = "und_poll") => cnt.click = 1
        /\ (tick.done /\ tick.to = "TRAVELING")
              => (cnt.click = 1 /\ cnt.polls >= 1 /\ tick.gone)
        /\ (tick.done /\ tick.to # "TRAVELING" /\ pc # "crashed")
              => /\ tick.fail /\ tick.to = "IDLE" /\ ~tick.gone
                 /\ pc = "loop" => ~running
                 /\ \/ cnt.click = 0 /\ cnt.polls = 0
                    \/ cnt.click = 1 /\ cnt.polls = 30

C18_Witness ==
    /\ tick.done /\ tick.from = "UNDOCKING" /\ tick.to = "TRAVELING"
    /\ cnt.click = 1 /\ cnt.polls = 2 /\ tick.gone

\* C19: a TRAVELING tick right-clicks the belts of its scan one after the
\* other, clicks at most one warp option, and right-clicks no belt after
\* that click; a tick whose scan has no belt, or whose belts all yield no
\* warp option, halts with no warp option clicked; a tick that arrives
\* has clicked exactly one.
C19_FirstBeltWarp ==
    tick.from = "TRAVELING" =>
        /\ cnt.warp <= 1 /\ cnt.rclick <= tick.belts
        /\ pc = "trv_belt" => (cnt.warp = 0 /\ cnt.rclick = tick.belts - belts_left)
        /\ cnt.warp = 1 => pc # "trv_belt"
        /\ (tick.done /\ pc # "crashed" /\ tick.to # "SCANNING")
              => /\ tick.fail /\ tick.to = "IDLE" /\ cnt.warp = 0
                 /\ pc = "loop" => ~running
                 /\ cnt.rclick = tick.belts
        /\ (tick.done /\ tick.to = "SCANNING") => cnt.warp = 1

C19_Witness ==
    /\ tick.from = "TRAVELING" /\ tick.belts = 2 /\ cnt.rclick = 1
    /\ cnt.warp = 1 /\ pc = "trv_appear"

\* C20: a TRAVELING tick that arrived ends in SCANNING; the CHECK_CARGO
\* it assigns on the way is never dispatched on: unless start() or the
\* operator's Dock Now has set the state since, the handler dispatched
\* after that tick is SCANNING's, and no cargo reading is taken before the
\* first scan of the new belt.
C20_NoCheckCargoAfterTravel ==
    [][/\ (tick'.done /\ tick'.from = "TRAVELING" /\ ~tick'.fail
           /\ pc' # "crashed") => tick'.to = "SCANNING"
       /\ (pc = "update" /\ pc' \notin {"update", "loop"}
           /\ tick.from = "TRAVELING" /\ ~mon.started /\ state # "DOCKING")
             => pc' = "scanning"
       /\ mon'.after_travel
             => /\ tick'.from \in {"SCANNING", "DOCKING"}
                /\ pc' # "check_cargo"
                /\ (tick'.from = "SCANNING" /\ cnt'.scan = 0)
                     => tick'.chk = NoCheck]_vars

C20_Witness ==
    mon.after_travel /\ pc = "scanning" /\ tick.from = "SCANNING"

\* The orderings of a pool.
Reorderings(all) ==
    { [i \in DOMAIN all |-> all[p[i]]] : p \in Permutations(DOMAIN all) }

\* C21: scan_overview's row reconciliation gives the same final rows for
\* every ordering of the same pooled entries.
C21_OrderIndependent ==
    (vis.fn = "scan" /\ vis.called) =>
        \A q \in Reorderings(vis.in) : FinalResults(q) = vis.out

\* The y values of a list of entries.
Ys(seq) == [i \in DOMAIN seq |-> seq[i].y]

RECURSIVE Flat(_)
Flat(g) == IF g = << >> THEN << >> ELSE Flat(SubSeq(g, 1, Len(g) - 1)) \o g[Len(g)]

\* C23: the rows are the chains of the y-sorted pool: consecutive entries
\* of a row are less than 10 pixels apart, the last entry of a row and the
\* first of the next are 10 or more apart, every pooled entry is in one
\* row, and one entry of each row is emitted; y = 100, 104, 109, 130 give
\* the rows {100, 104, 109} and {130}.
C23_RowChaining ==
    (vis.fn = "scan" /\ vis.called) =>
        LET sorted == SortedByY(vis.in)
            g == Groups(sorted)
        IN  /\ Flat(g) = sorted
            /\ \A i \in 1..(Len(sorted) - 1) : sorted[i].y <= sorted[i + 1].y
            /\ \A r \in DOMAIN g : \A k \in 1..(Len(g[r]) - 1) :
                   g[r][k + 1].y - g[r][k].y < 10
            /\ \A r \in 1..(Len(g) - 1) :
                   g[r + 1][1].y - g[r][Len(g[r])].y >= 10
            /\ Len(vis.out) = Len(g)
            /\ \A r \in DOMAIN g : \E k \in DOMAIN g[r] : vis.out[r] = g[r][k]
            /\ Ys(sorted) = <<100, 104, 109, 130>>
                   => /\ Len(g) = 2
                      /\ Ys(g[1]) = <<100, 104, 109>>
                      /\ Ys(g[2]) = <<130>>

C23_Witness ==
    /\ vis.fn = "scan" /\ vis.called
    /\ Ys(vis.in) = <<130, 109, 100, 104>>
    /\ Ys(vis.out) = <<100, 130>>

\* The boxes the returned location was matched on: the box itself for a
\* single word, the non-empty boxes from it on for a phrase.
MatchedTexts(boxes, i, n) ==
    LET rest == SelectSeq(SubSeq(boxes, i, Len(boxes)), LAMBDA t : t # << >>)
    IN  SubSeq(rest, 1, n)

\* C22: with exact_match a location is returned only for detected text
\* equal to the target, word for word, for single-word and multi-word
\* targets, and never for a fuzzy candidate.
C22_ExactIsExact ==
    (vis.fn = "find" /\ vis.called /\ vis.in.exact_match /\ vis.out.found) =>
        /\ vis.out.exact
        /\ MatchedTexts(vis.in.passes[vis.out.pass], vis.out.box,
                        Len(vis.in.target_words)) = vis.in.target_words

\* The digits after the last comma of a text.
LastGroupDigits(str) == Len(Without(LastPart(str), {" ", "."}))

\* C24: the parsed max is divided by 10 exactly when the max text has a
\* comma, has no decimal point and has exactly four digits after its last
\* comma; '30,049.3/34,3750' gives current 30049.3 and max 34375.0, about
\* 87.4 percent; with three digits in the last group or with a decimal
\* point the rule changes nothing.
C24_MissingDecimal ==
    (vis.fn = "parse" /\ vis.called /\ ParseText(vis.in) # NoParse) =>
        LET p == ParseText(vis.in)
            four == /\ Count(vis.in.raw_max, ",") > 0
                    /\ Count(vis.in.raw_max, ".") = 0
                    /\ LastGroupDigits(vis.in.raw_max) = 4
        IN  /\ vis.out.max_1 = IF four THEN p.max \div 10 ELSE p.max
            /\ vis.in = TooltipText(<<"3", "0", ",", "0", "4", "9", ".", "3">>, <<"3", "4", ",", "3", "7", "5", "0">>)
                 => /\ vis.out.current = 300493 /\ vis.out.max = 343750
                    /\ vis.out.valid
                    /\ vis.out.percent.num * 10 >= 874 * vis.out.percent.den
                    /\ vis.out.percent.num * 10 < 875 * vis.out.percent.den

\* C25: a cargo check whose reading has current above 102 % of the
\* validated max discards it: the tick, unless the operator force-docked
\* in it, does not end in DOCKING; a CHECK_CARGO tick goes on to SCANNING
\* and a MINING tick stays in MINING.
C25_AnomalousDiscarded ==
    (/\ tick.done /\ tick.chk.performed /\ tick.chk.raw > 0 /\ ~tick.forced
     /\ tick.chk.current * 100 > tick.chk.max * 102) =>
        /\ tick.chk.discarded
        /\ tick.to # "DOCKING"
        /\ tick.from \in {"CHECK_CARGO", "MINING"}
        /\ tick.from = "CHECK_CARGO" => tick.to = "SCANNING"
        /\ tick.from = "MINING" => tick.to = "MINING"

C25_Witness ==
    /\ tick.done /\ ~tick.forced /\ tick.from = "MINING" /\ tick.to = "MINING"
    /\ tick.chk.performed /\ tick.chk.discarded
    /\ tick.chk.current = 1030 /\ tick.chk.max = 1000 /\ tick.chk.raw = 1000

\* C26: with the hover point or the tooltip region unset no cargo check
\* hovers or reads: known_max_cargo stays unset, a MINING tick never
\* enters the check, and a CHECK_CARGO tick makes no call at all and,
\* unless the operator force-docked in it, ends in SCANNING.
C26_UnsetSkipsCheck ==
    ~cargo_configured =>
        /\ ~tick.chk.performed
        /\ known_max_cargo = NoMax
        /\ pc # "mining_cargo"
        /\ (tick.done /\ tick.from = "CHECK_CARGO") =>
               /\ ~tick.io /\ cnt = ZeroCnt
               /\ ~tick.forced => tick.to = "SCANNING"

C26_Witness ==
    /\ ~cargo_configured /\ tick.done /\ tick.from = "CHECK_CARGO"
    /\ tick.to = "SCANNING" /\ ~tick.io /\ ~tick.chk.performed

\* C27: update() called while running is False returns at once, whatever
\* the state: no handler is entered, so no perception or actuator call is
\* made, and the state, the target, the counters and known_max_cargo are
\* as they were.
C27_UpdateNoOp ==
    [][(pc = "update" /\ pc' # "update" /\ ~running) =>
           /\ pc' = "loop"
           /\ UNCHANGED botVars
           /\ tick'.done /\ ~tick'.io /\ cnt' = ZeroCnt]_vars

C27_Witness ==
    /\ pc = "loop" /\ ~running /\ thr_running /\ state = "DOCKING"
    /\ tick.done /\ tick.from = "DOCKING" /\ ~tick.fail /\ ~tick.io
    /\ cnt = ZeroCnt

\* C28: start() sets running and then makes one probe for 'Undock';
\* when it returns the state is UNDOCKING if the probe found the text and
\* CHECK_CARGO if not, whatever state, target and counters it found, and
\* it changes nothing else.
C28_StartResolvesState ==
    [][/\ (pc = "loop" /\ pc' = "start") => running'
       /\ (pc = "start" /\ pc' \notin {"start", "crashed"}) =>
              /\ running' /\ mon'.probe \in {"found", "absent"}
              /\ mon'.probe = "found" => state' = "UNDOCKING"
              /\ mon'.probe = "absent" => state' = "CHECK_CARGO"
              /\ UNCHANGED <<current_target, lost_target_counter,
                             scan_fail_count, known_max_cargo,
                             approach_command_sent, last_cargo_check>>]_vars

C28_Witness ==
    /\ pc = "update" /\ running /\ mon.probe = "found" /\ state = "UNDOCKING"
    /\ scan_fail_count = 1 /\ known_max_cargo # NoMax

\* C29: from one entry into APPROACHING to the next, approach_target is
\* issued at most once, and at most once in a tick, however many ticks
\* find the nearest asteroid at 15 km or more.
C29_ApproachOnce ==
    mon.approaches <= 1 /\ cnt.approach <= 1

C29_Witness ==
    /\ mon.approaches = 1 /\ tick.done /\ tick.from = "APPROACHING"
    /\ tick.to = "APPROACHING" /\ ~tick.forced
    /\ cnt.scan = 1 /\ cnt.approach = 0 /\ approach_command_sent

\* C30: an APPROACHING tick the operator did not force-dock, whose fresh
\* scan shows an asteroid, ends in LOCKING exactly when the least distance
\* among the scan's asteroids is below 15 km.
C30_NearestDecides ==
    (tick.done /\ tick.from = "APPROACHING" /\ tick.nearest >= 0 /\ ~tick.forced) =>
        (tick.to = "LOCKING" <=> tick.nearest < InRangeKm10)

\* C31: activate_scanner and activate_miners are called only in a LOCKING
\* tick, each at most once and only after has_selected_target returned
\* true in that tick; a LOCKING tick that ends in MINING has called each
\* exactly once, one that ends in SCANNING has called neither.
C31_ArmedOnConfirmedLock ==
    /\ cnt.scanner <= 1 /\ cnt.miners = cnt.scanner
    /\ cnt.scanner = 1 => (tick.from = "LOCKING" /\ tick.locked /\ cnt.verify >= 1)
    /\ (tick.done /\ tick.from = "LOCKING" /\ tick.to = "MINING")
          => (cnt.scanner = 1 /\ cnt.miners = 1)
    /\ (tick.done /\ tick.from = "LOCKING" /\ tick.to = "SCANNING")
          => (cnt.scanner = 0 /\ cnt.miners = 0 /\ ~tick.locked)

C31_Witness ==
    /\ tick.done /\ tick.from = "LOCKING" /\ tick.to = "MINING" /\ tick.locked
    /\ cnt.lock = 2 /\ cnt.verify = 4 /\ cnt.scanner = 1 /\ cnt.miners = 1

\* The boxes of a call, in scan order, that hold the target as a
\* substring (one word) or start the target phrase (several words).
Matches(in) ==
    UNION { { <<p, i>> : i \in { k \in DOMAIN in.passes[p] :
                /\ in.passes[p][k] # << >>
                /\ IF Len(in.target_words) = 1
                   THEN Substring(in.target_words[1], in.passes[p][k])
                   ELSE PhraseMatch(in.passes[p], k, in.target_words) } } :
            p \in DOMAIN in.passes }

Before(a, b) == a[1] < b[1] \/ (a[1] = b[1] /\ a[2] < b[2])

\* The fuzzy candidates of a call: the boxes of more than two characters
\* with the score each has, 0.95 by alias or a ratio at or above its
\* threshold.
Candidates(in) ==
    IF Len(in.target_words) # 1 THEN {}
    ELSE LET t == in.target_words[1]
             Scores(text) ==
                 (IF t = Chars.undock /\ \E alias \in Aliases : Substring(alias, text)
                  THEN {AliasRatio} ELSE {})
                 \cup (LET r == Ratio(t, text)
                           th == Threshold(t, r)
                       IN  IF r.num * th.den >= th.num * r.den THEN {r} ELSE {})
         IN  UNION { UNION { { [pos |-> <<p, i>>, score |-> sc] :
                                   sc \in IF Len(in.passes[p][i]) > 2
                                          THEN Scores(in.passes[p][i]) ELSE {} } :
                             i \in DOMAIN in.passes[p] } :
                     p \in DOMAIN in.passes }

\* C32: without exact_match, when some box holds the target (substring or
\* phrase) the location returned is that of the first such box in scan
\* order; otherwise a location is returned only if there are fuzzy
\* candidates, and it is that of a candidate with the highest score.
C32_MatchBeforeFuzzy ==
    (vis.fn = "find" /\ vis.called /\ ~vis.in.exact_match) =>
        LET out == <<vis.out.pass, vis.out.box>>
        IN  IF Matches(vis.in) # {}
            THEN /\ vis.out.found /\ vis.out.exact
                 /\ out \in Matches(vis.in)
                 /\ \A m \in Matches(vis.in) : ~Before(m, out)
            ELSE /\ ~vis.out.exact
                 /\ vis.out.found <=> Candidates(vis.in) # {}
                 /\ vis.out.found =>
                      \E c \in Candidates(vis.in) :
                          /\ c.pos = out
                          /\ \A d \in Candidates(vis.in) :
                                 c.score.num * d.score.den >= d.score.num * c.score.den

C32_Witness ==
    /\ vis.fn = "find" /\ vis.called /\ ~vis.in.exact_match
    /\ vis.in.target_words = <<Chars.undock>>
    /\ vis.in.passes = << <<Chars.undack>>, <<Chars.endock, Chars.warp>> >>
    /\ vis.out.found /\ ~vis.out.exact /\ vis.out.pass = 2 /\ vis.out.box = 1

\* The integer nearest to a value in tenths, as round() gives it (a half
\* goes to the even neighbour).
NearestInt(m) ==
    LET q == m \div 10
        r == m % 10
    IN  IF r < 5 THEN q
        ELSE IF r > 5 THEN q + 1
        ELSE IF q % 2 = 0 THEN q ELSE q + 1

\* The valid entries whose max has v for nearest integer.
Group(vr, v) == { i \in DOMAIN vr : NearestInt(vr[i].max) = v }

\* C33: when two or more variants yield valid candidates, the max of the
\* reading returned lies in a group (candidates grouped by the nearest
\* integer of max) that no other group outnumbers; among groups tied at
\* the top the one Dilated supports wins, else the one Fixed supports;
\* and the (current, max, percent) returned is that of one candidate of
\* the winning group.
C33_VoteByNearestInt ==
    (vis.fn = "tooltip" /\ vis.called /\ Len(ValidResults(vis.in, 4)) >= 2) =>
        LET vr == ValidResults(vis.in, 4)
            w == NearestInt(vis.out.max)
            size(v) == Cardinality(Group(vr, v))
            tops == { NearestInt(vr[i].max) : i \in
                        { j \in DOMAIN vr :
                            \A k \in DOMAIN vr :
                                size(NearestInt(vr[k].max)) <= size(NearestInt(vr[j].max)) } }
            by(mth) == { NearestInt(vr[i].max) : i \in
                           { j \in DOMAIN vr : vr[j].method = mth } } \cap tops
        IN  /\ w \in tops
            /\ by("Dilated") # {} => w \in by("Dilated")
            /\ (by("Dilated") = {} /\ by("Fixed") # {}) => w \in by("Fixed")
            /\ \E i \in Group(vr, w) : vis.out = Returned(vr[i])

\* A line that counts as content: 3 characters or more, neither the
\* window header nor a 'no object' line.
ContentLine(line) ==
    /\ Len(line) >= 3
    /\ ~Above(Ratio(Chars.selected_item, line), [num |-> 8, den |-> 10])
    /\ ~Above(Ratio(Chars.no_object_selected, line), [num |-> 55, den |-> 100])
    /\ ~Negative(line)

\* A word resembles a token of the target name, or holds a veldspar alias
\* when the target is Veldspar.
NamesTarget(word, target_lower) ==
    \/ \E k \in DOMAIN Words(target_lower) :
           Above(Ratio(Words(target_lower)[k], word), [num |-> 7, den |-> 10])
    \/ /\ Substring(Chars.veldspar, target_lower)
       /\ \E alias \in VeldAliases : Substring(alias, word)

\* C34: has_selected_target called with a target name returns true only
\* if in some variant a word of 4 characters or more on a content line
\* resembles (similarity above 0.7) a token of the target name, or holds
\* the veldspar alias when the target is Veldspar.
C34_OnlyTheNamedTarget ==
    (vis.fn = "selected" /\ vis.called /\ vis.in.target_name # << >> /\ vis.out) =>
        \E m \in DOMAIN SelectedMethods :
            LET lines == Split(Lower(vis.in.texts[m]), "\n")
            IN  \E k \in DOMAIN lines :
                    /\ ContentLine(Strip(lines[k]))
                    /\ \E i \in DOMAIN Words(CleanFrom(Strip(lines[k]), 1)) :
                           LET word == Words(CleanFrom(Strip(lines[k]), 1))[i]
                           IN  /\ Len(word) >= 4
                               /\ NamesTarget(word, Lower(vis.in.target_name))

\* A line matching a belt keyword, or marked too far.
BeltOrFar(text) == is_belt(Lower(text)) \/ is_far(Lower(text))

\* C35: a line matching a belt keyword or marked too far ('au') is never
\* classified as an asteroid, and is_asteroid is true exactly when the
\* clean name is set.
C35_BeltNeverAsteroid ==
    (vis.fn = "classify" /\ vis.called) =>
        /\ BeltOrFar(vis.in) => ~vis.out.is_asteroid
        /\ vis.out.is_asteroid <=> vis.out.name # NoOre

\* The perception and actuator calls counted in the current tick.
TickCalls ==
    cnt.scan + cnt.lock + cnt.verify + cnt.toggle + cnt.approach
      + cnt.stop_ship + cnt.scanner + cnt.miners + cnt.polls + cnt.drag
      + cnt.click + cnt.rclick + cnt.warp

\* The most calls of these a tick of each state can make.
CallBound(s) ==
    CASE s = "SCANNING"    -> 1
      [] s = "APPROACHING" -> 2
      [] s = "LOCKING"     -> 5 * max_retries + 2
      [] s = "MINING"      -> 1
      [] s = "DOCKING"     -> DockPolls
      [] s = "UNLOADING"   -> 1
      [] s = "UNDOCKING"   -> 1 + UndockPolls
      [] OTHER             -> 0

\* The steps of a handler in the order the code runs them; a loop goes
\* back in this order.
PcRank(p) ==
    CASE p \in {"check_cargo", "scanning", "approaching", "lock_scan", "mining",
                "dock_dropoff", "unl_tabs", "und_find"} -> 1
      [] p \in {"lock_verify1", "mining_cargo", "dock_menu", "unl_ore", "und_poll"} -> 2
      [] p \in {"lock_verify2", "dock_poll", "unl_verify"} -> 3
      [] OTHER -> 0

\* The loop thread has taken a step of the handler.
HandlerMoved ==
    <<pc, cnt, attempt, poll, confirmations, belts_left>>'
        # <<pc, cnt, attempt, poll, confirmations, belts_left>>

\* C36: a tick of a state other than TRAVELING makes a bounded number of
\* calls and returns: its calls never exceed the bound of its state, and
\* every step of its handler ends the tick, makes a further call, or
\* moves on in the handler.  TRAVELING's wait has no cap: a poll that sees
\* 'Warping' or 'Warp' stays in the wait, and the wait is left only by
\* the poll that sees neither (or by an exception).
C36_OnlyTravelWaitsUnbounded ==
    /\ [](tick.from # "TRAVELING" => TickCalls <= CallBound(tick.from))
    /\ [][(~tick.done /\ tick.from # "TRAVELING" /\ HandlerMoved)
             => \/ tick'.done
                \/ TickCalls' > TickCalls
                \/ PcRank(pc') > PcRank(pc)]_vars
    /\ [][(pc = "trv_wait" /\ (pc' # pc \/ mon'.waits # mon.waits))
             => \/ pc' = "trv_wait" /\ mon'.waits = mon.waits + 1
                \/ pc' = "trv_arrive" /\ mon'.waits = 0 /\ state' = "CHECK_CARGO"
                \/ pc' = "crashed"]_vars

C36_Witness ==
    /\ pc = "trv_wait" /\ tick.from = "TRAVELING" /\ ~tick.done
    /\ mon.waits = MaxWaits

\* A step of the GUI thread: it changes a button, a timer or the count of
\* clicks, which the loop thread never does.
GuiMoved == guiVars' # guiVars

\* What only a perception or actuator call, or the handler around it,
\* changes.
Perceived ==
    <<cnt, pc, attempt, poll, confirmations, belts_left, tick.io, tick.chk,
      tick.ver, mon.sct, mon.probe>>'
        # <<cnt, pc, attempt, poll, confirmations, belts_left, tick.io, tick.chk,
            tick.ver, mon.sct, mon.probe>>

\* C37: the screen-capture handle is created by the loop thread, and a
\* step of the GUI thread (start, stop, the timer, force-dock) makes no
\* perception or actuator call: it writes should_run or bot.state and
\* leaves the rest of the controller alone.
C37_PerceptionInLoopThread ==
    /\ [](mon.sct \in {"none", "loop"})
    /\ [][GuiMoved =>
            /\ ~Perceived
            /\ UNCHANGED <<running, thr_running, current_target,
                           current_target_name, lost_target_counter,
                           last_cargo_check, known_max_cargo,
                           approach_command_sent, scan_fail_count>>
            /\ state' # state => state' = "DOCKING"]_vars
    /\ [][Perceived => ~GuiMoved]_vars

C37_Witness ==
    /\ mon.sct = "loop" /\ ~tick.done /\ tick.forced
    /\ pc = "dock_poll" /\ cnt.polls > 0 /\ ~should_run

\* C38: whenever the controller's running flag is False, outside start()
\* and stop(), its state is IDLE.
C38_StoppedIsIdle ==
    (~running /\ pc # "start") => state = "IDLE"

\* C39: known_max_cargo is assigned only from a reading that the same
\* cargo check accepts: a check that changes it has not discarded its
\* reading, and the new value is the max of that reading.
C39_BaselineFromAccepted ==
    [][known_max_cargo' # known_max_cargo =>
           /\ tick'.chk.performed
           /\ ~tick'.chk.discarded
           /\ known_max_cargo' = tick'.chk.raw]_vars

\* C40: a cargo reading on which a state change is based has been
\* filtered first: the DOCKING a cargo check decides comes from a reading
\* it did not discard, computed on the validated max; and the reading
\* UNLOADING takes after the drag is within 102 % of the max validated
\* against known_max_cargo, the tick going to UNDOCKING exactly when it is
\* below 10 % of that max.
C40_DecisionsFromFilteredReadings ==
    /\ (tick.done /\ tick.chk.performed /\ tick.to = "DOCKING" /\ ~tick.forced) =>
           /\ ~tick.chk.discarded
           /\ tick.chk.max = ValidatedMax(tick.chk.known, tick.chk.raw)
           /\ ~(tick.chk.current * 100 > tick.chk.max * 102)
    /\ (tick.done /\ tick.from = "UNLOADING" /\ tick.ver.read /\ tick.ver.max > 0) =>
           LET m == ValidatedMax(known_max_cargo, tick.ver.max)
           IN  /\ ~(tick.ver.current * 100 > m * 102)
               /\ (tick.to = "UNDOCKING") <=> (tick.ver.current * 10 < m)

====
